---- MODULE Spec2Model ----
(***************************************************************************)
(* Cloth simulation (Position Based Dynamics on WebGPU).                   *)
(*                                                                         *)
(* The model follows the config-driven ClothSimulation class, the          *)
(* ClothSimulationApp frame loop and the WGSL compute shaders it runs      *)
(* (init, PBD stage 1..3, sine driver).  The GPU is a FIFO queue of        *)
(* buffer writes, copies and compute passes that are executed one at a     *)
(* time in submission order.                                               *)
(*                                                                         *)
(* Numbers.  f32 values are fixed-point integers in units of 1/One; f32    *)
(* rounding is not modelled, integer division truncates.  A 32-bit cell    *)
(* of a uniform or constraint buffer remembers how it was written (as an   *)
(* f32, as a u32, or as four raw bytes) so that a read through the other   *)
(* type is the reinterpretation of the bits and not the identity.          *)
(*                                                                         *)
(* Layout.  The host and the vertex fetch address a vertex at three floats  *)
(* (12 bytes); the shaders declare the same buffers as array<vec3<f32>>,   *)
(* whose element stride is 16 bytes.  Both views are modelled on one       *)
(* sequence of floats.  An out-of-bounds access of a shader is either      *)
(* skipped or clamped to the last element of the array.                    *)
(*                                                                         *)
(* Nine specifications share the variables:                                *)
(*   Spec        the application from construction on;                     *)
(*   SolverSpec  the frame loop and the GPU started on the grid the setup  *)
(*               is written to produce, at or near rest;                   *)
(*   ProjSpec    one thread of the Constrain stage on one constraint;      *)
(*   FineSpec    ProjSpec with lengths below the distance guard;           *)
(*   ChainSpec   one Constrain pass over two constraints that share a      *)
(*               vertex;                                                   *)
(*   ControlSpec SolverSpec with the gravity toggle of the UI;             *)
(*   ConfigSpec  the host-side setup, one loop iteration at a time;        *)
(*   IndexSpec   the last rows of the triangle index data, on grids up to  *)
(*               257 x 257;                                                *)
(*   AppSpec     start(), stop() and setTestMode() in any order.           *)
(*                                                                         *)
(* Not modelled: WebGPU validation of pipelines and bind group layouts     *)
(* (pipelines are taken to be valid with the access modes the shaders      *)
(* declare), the render pass contents, camera and FPS bookkeeping.         *)
(***************************************************************************)
EXTENDS Integers, Sequences, FiniteSets, TLC

(***************************************************************************)
(* Program constants (utils/config.js), fixed-point in units of 1/One.     *)
(***************************************************************************)
One == 1000
width == 10000
height == 10000
dt == 16
gravity == 9810
damping == 990
amplitude == 1500
frequency == 3000
workgroupSize == 256
\* 1/0.0001, the distance guard of PBD stage 2
epsilonInv == 10000

(***************************************************************************)
(* Bounds of the model.                                                    *)
(***************************************************************************)
MaxRes == 3
MaxIterations == 1
MaxTicks == 2
MaxPending == 1
MaxToggles == 1

(***************************************************************************)
(* Scalar arithmetic.                                                      *)
(***************************************************************************)
Abs(a) == IF a < 0 THEN -a ELSE a

\* division truncating toward zero
TDiv(a, b) == IF (a >= 0) = (b > 0) THEN Abs(a) \div Abs(b)
                                    ELSE -(Abs(a) \div Abs(b))

Max(a, b) == IF a >= b THEN a ELSE b
Min(a, b) == IF a <= b THEN a ELSE b

Sign(a, b) == IF (a >= 0) = (b >= 0) THEN 1 ELSE -1

\* a * b and a / b of fixed-point numbers, truncated toward zero; the
\* product and the quotient are split so that no intermediate value is
\* larger than the result times One
FxMul(a, b) ==
    LET hi == Max(Abs(a), Abs(b))
        lo == Min(Abs(a), Abs(b))
    IN  Sign(a, b) * ((hi \div One) * lo + ((hi % One) * lo) \div One)
FxDiv(a, b) ==
    Sign(a, b) * ((Abs(a) \div Abs(b)) * One + ((Abs(a) % Abs(b)) * One) \div Abs(b))

\* Math.ceil(a / b) for a >= 0, b > 0
CeilDiv(a, b) == (a + b - 1) \div b

RECURSIVE SqrtDown(_, _)
SqrtDown(n, x) == LET y == (x + n \div x) \div 2
                  IN  IF y >= x THEN x ELSE SqrtDown(n, y)

\* floor of the square root
ISqrt(n) == IF n = 0 THEN 0 ELSE SqrtDown(n, n)

RECURSIVE Pow2(_)
Pow2(k) == IF k = 0 THEN 1 ELSE 2 * Pow2(k - 1)

RECURSIVE Log2Floor(_)
Log2Floor(n) == IF n <= 1 THEN 0 ELSE 1 + Log2Floor(n \div 2)

\* sin(x) by its Taylor polynomial x - x^3/6, x in units of 1/One
Sin(x) == x - TDiv(x * x * x, 6 * One * One)

(***************************************************************************)
(* vec3<f32>                                                               *)
(***************************************************************************)
Zero3 == <<0, 0, 0>>
VAdd(a, b) == <<a[1] + b[1], a[2] + b[2], a[3] + b[3]>>
VSub(a, b) == <<a[1] - b[1], a[2] - b[2], a[3] - b[3]>>
VScale(a, s) == <<FxMul(a[1], s), FxMul(a[2], s), FxMul(a[3], s)>>
VDivS(a, s) == <<FxDiv(a[1], s), FxDiv(a[2], s), FxDiv(a[3], s)>>
\* WGSL length(): sqrt(x*x + y*y + z*z).  A vector with a component above
\* 20.0 is scaled down before squaring and the root scaled back up.
length(a) ==
    LET s == 1 + Max(Abs(a[1]), Max(Abs(a[2]), Abs(a[3]))) \div 20000
        x == a[1] \div s
        y == a[2] \div s
        z == a[3] \div s
    IN  s * ISqrt(x * x + y * y + z * z)

(***************************************************************************)
(* 32-bit cells and typed arrays.                                          *)
(*                                                                         *)
(* A JS typed array is [kind, elems]; the elements of a Float32Array are   *)
(* fixed-point, those of the integer arrays are plain integers.  A GPU     *)
(* cell is [t, v, b]: t = "f32" with value v, t = "u32" with value v, or   *)
(* t = "bytes" with the four little-endian bytes b.                        *)
(***************************************************************************)
NoBytes == <<0, 0, 0, 0>>
FCell(v) == [t |-> "f32", v |-> v, b |-> NoBytes]
UCell(n) == [t |-> "u32", v |-> n, b |-> NoBytes]
BCell(b) == [t |-> "bytes", v |-> 0, b |-> b]
ZeroCell == BCell(NoBytes)

Float32Array(e) == [kind |-> "Float32Array", elems |-> e]
Uint32Array(e) == [kind |-> "Uint32Array", elems |-> e]
Uint16Array(e) == [kind |-> "Uint16Array", elems |-> [i \in DOMAIN e |-> e[i] % 65536]]
null == [kind |-> "null", elems |-> <<>>]

byteLength(ta) == Len(ta.elems) * (IF ta.kind = "Uint16Array" THEN 2 ELSE 4)

\* bits of the f32 that holds the whole number n >= 0 (exact for n < 2^24)
F32BitsOfNat(n) ==
    IF n = 0 THEN 0
    ELSE LET e == Log2Floor(n)
         IN  (127 + e) * Pow2(23) + (n - Pow2(e)) * Pow2(23 - e)

\* bits of an f32 given as fixed-point v; whole non-negative values only
F32Bits(v) == F32BitsOfNat(v \div One)

\* value of the u32 stored in four little-endian bytes
WordOf(b) == b[1] + 256 * b[2] + 65536 * b[3] + 16777216 * b[4]

\* fixed-point value of the f32 with the non-negative bit pattern w: zero,
\* denormals and everything below 2^-10 are 0; the mantissa is cut to 11 bits
F32FromBits(w) ==
    LET e == w \div Pow2(23)
        m == (Pow2(23) + (w % Pow2(23))) \div Pow2(13)
    IN  IF e < 117 THEN 0
        ELSE IF e >= 137 THEN m * One * Pow2(e - 137)
        ELSE (m * One) \div Pow2(137 - e)

\* a cell read by a shader as f32 / as u32
AsF32(c) == CASE c.t = "f32" -> c.v
              [] c.t = "u32" -> F32FromBits(c.v)
              [] c.t = "bytes" -> F32FromBits(WordOf(c.b))
AsU32(c) == CASE c.t = "u32" -> c.v
              [] c.t = "f32" -> F32Bits(c.v)
              [] c.t = "bytes" -> WordOf(c.b)

\* ToUint8 of element i of a typed array: the integer part modulo 256
ToUint8(ta, i) ==
    (IF ta.kind = "Float32Array" THEN TDiv(ta.elems[i], One) ELSE ta.elems[i]) % 256

\* new Uint8Array(data): one byte per ELEMENT of data, value-converted
Uint8ArrayFrom(ta) == [i \in DOMAIN ta.elems |-> ToUint8(ta, i)]

\* webgpu-init.js createBuffer(device, size, usage, data) for a buffer of
\* 32-bit cells: zero-filled, then mappedBuffer.set(new Uint8Array(data))
\* puts the converted bytes at byte offsets 0..Len(data)-1
createBuffer(size, data) ==
    LET bytes == Uint8ArrayFrom(data)
        byteAt(k) == IF k + 1 <= Len(bytes) THEN bytes[k + 1] ELSE 0
    IN  [c \in 0..(size \div 4 - 1) |->
            BCell(<<byteAt(4 * c), byteAt(4 * c + 1),
                    byteAt(4 * c + 2), byteAt(4 * c + 3)>>)]

\* createBuffer without data for an array of f32: all zero
createFloatBuffer(n) == [i \in 0..(n - 1) |-> 0]

\* queue.writeBuffer(buffer, 0, data) into a buffer of 32-bit cells: the
\* bytes of data are copied as they are
writeBuffer(buffer, data) ==
    [c \in DOMAIN buffer |->
        IF c + 1 <= Len(data.elems)
        THEN IF data.kind = "Float32Array" THEN FCell(data.elems[c + 1])
                                           ELSE UCell(data.elems[c + 1])
        ELSE buffer[c]]

(***************************************************************************)
(* u32 arithmetic that can wrap (operands below 2^31).                     *)
(***************************************************************************)
BytesOf(n) == <<n % 256, (n \div 256) % 256, (n \div 65536) % 256, n \div 16777216>>

\* the low 32 bits of a * b, as four little-endian bytes
U32MulBytes(a, b) ==
    LET x == BytesOf(a)
        y == BytesOf(b)
        c0 == x[1] * y[1]
        c1 == x[1] * y[2] + x[2] * y[1] + c0 \div 256
        c2 == x[1] * y[3] + x[2] * y[2] + x[3] * y[1] + c1 \div 256
        c3 == x[1] * y[4] + x[2] * y[3] + x[3] * y[2] + x[4] * y[1] + c2 \div 256
    IN  <<c0 % 256, c1 % 256, c2 % 256, c3 % 256>>

\* index >= w for a u32 w given by its bytes and a small index
U32GeBytes(index, w) == w[4] < 128 /\ index >= WordOf(w)

\* WGSL integer division and remainder: e / 0 = e, e % 0 = 0
U32Div(a, b) == IF b = 0 THEN a ELSE a \div b
U32Mod(a, b) == IF b = 0 THEN 0 ELSE a % b

(***************************************************************************)
(* utils/config.js getDeriveConfig                                         *)
(***************************************************************************)
\* a / b of two Numbers, a > 0: IEEE division by zero gives Infinity
Infinity == "Infinity"
JsDiv(a, b) == IF b = 0 THEN Infinity ELSE TDiv(a, b)

\* getDeriveConfig counting one triangle per cell
getDeriveConfigOnePerCell(rx, ry) ==
    [vertexCount   |-> rx * ry,
     triangleCount |-> (rx - 1) * (ry - 1),
     spacingX      |-> JsDiv(width, rx - 1),
     spacingY      |-> JsDiv(height, ry - 1),
     centerIndex   |-> (rx \div 2) + (ry \div 2) * rx]

getDeriveConfig(rx, ry) ==
    [vertexCount   |-> rx * ry,
     triangleCount |-> (rx - 1) * (ry - 1) * 2,
     spacingX      |-> JsDiv(width, rx - 1),
     spacingY      |-> JsDiv(height, ry - 1),
     centerIndex   |-> (rx \div 2) + (ry \div 2) * rx]

\* the constructor of the ClothSimulation variant that takes a resolution
LegacyConstructor(resolution) ==
    [vertexCount     |-> resolution * resolution,
     triangleCount   |-> (resolution - 1) * (resolution - 1) * 2,
     constraintCount |-> (resolution - 1) * resolution * 2
                         + (resolution - 1) * (resolution - 1)]

(***************************************************************************)
(* Two views of a buffer of f32.  JavaScript and the vertex fetch address  *)
(* vertex k at floats 3k..3k+2.  A shader that declares the buffer as      *)
(* array<vec3<f32>> addresses element i at floats 4i..4i+2 (stride 16) and *)
(* sees arrayLength = byte size / 16 elements.                             *)
(***************************************************************************)
Size(buf) == Cardinality(DOMAIN buf)

getPos(positionData, idx) ==
    <<positionData[idx * 3], positionData[idx * 3 + 1], positionData[idx * 3 + 2]>>

arrayLength(buf) == (Size(buf) * 4) \div 16

Vec3At(buf, i) == <<buf[4 * i], buf[4 * i + 1], buf[4 * i + 2]>>

PutVec3(buf, i, v) ==
    [k \in DOMAIN buf |-> IF k = 4 * i THEN v[1]
                          ELSE IF k = 4 * i + 1 THEN v[2]
                          ELSE IF k = 4 * i + 2 THEN v[3]
                          ELSE buf[k]]

PutY(buf, i, y) == [k \in DOMAIN buf |-> IF k = 4 * i + 1 THEN y ELSE buf[k]]

VARIABLE outOfBounds    \* what the GPU does with an out-of-bounds access
VARIABLE appPc          \* ClothSimulationApp: "constructed", "initialized",
                        \*   "started"; or the harness that is running

(***************************************************************************)
(* Out-of-bounds accesses.  WGSL leaves the outcome to the implementation. *)
(* The two policies implementations use are modelled, one per run          *)
(* (outOfBounds): "skip", a load yields zero and a store is dropped, or    *)
(* "clamp", the index is clamped to the last element of the array.         *)
(***************************************************************************)
LoadF32(buf, i) ==
    IF i \in DOMAIN buf THEN {buf[i]}
    ELSE IF outOfBounds = "clamp" /\ Size(buf) > 0 THEN {buf[Size(buf) - 1]}
    ELSE {0}

LoadVec3(buf, i) ==
    IF i < arrayLength(buf) THEN {Vec3At(buf, i)}
    ELSE IF outOfBounds = "clamp" /\ arrayLength(buf) > 0
         THEN {Vec3At(buf, arrayLength(buf) - 1)}
    ELSE {Zero3}

StoreVec3(buf, i, v) ==
    IF i < arrayLength(buf) THEN {PutVec3(buf, i, v)}
    ELSE IF outOfBounds = "clamp" /\ arrayLength(buf) > 0
         THEN {PutVec3(buf, arrayLength(buf) - 1, v)}
    ELSE {buf}

StoreY(buf, i, y) ==
    IF i < arrayLength(buf) THEN {PutY(buf, i, y)}
    ELSE IF outOfBounds = "clamp" /\ arrayLength(buf) > 0
         THEN {PutY(buf, arrayLength(buf) - 1, y)}
    ELSE {buf}

StoreF32(buf, i, v) ==
    IF i \in DOMAIN buf THEN {[buf EXCEPT ![i] = v]}
    ELSE IF outOfBounds = "clamp" /\ Size(buf) > 0
         THEN {[buf EXCEPT ![Size(buf) - 1] = v]}
    ELSE {buf}

(***************************************************************************)
(* Compute shaders.  A pass runs its threads 0..n-1.                       *)
(***************************************************************************)
\* @workgroup_size of the init and PBD shaders
shaderWorkgroupSize == 256

\* init shader, one thread (InitParams: width, height, startX, startZ,
\* spacingX, spacingZ as f32, resolutionX, resolutionY as u32)
InitMain(params, mem, index) ==
    LET resX == AsU32(params[6])
        resY == AsU32(params[7])
    IN  IF U32GeBytes(index, U32MulBytes(resX, resY)) THEN {mem}
        ELSE LET x == U32Mod(index, resX)
                 z == U32Div(index, resX)
                 posX == AsF32(params[2]) + FxMul(x * One, AsF32(params[4]))
                 posZ == AsF32(params[3]) + FxMul(z * One, AsF32(params[5]))
                 isCorner == (x = 0 \/ x = resX - 1) /\ (z = 0 \/ z = resY - 1)
             IN  {[positions |-> p, velocities |-> v, inverseMasses |-> m] :
                    p \in StoreVec3(mem.positions, index, <<posX, 0, posZ>>),
                    v \in StoreVec3(mem.velocities, index, Zero3),
                    m \in StoreF32(mem.inverseMasses, index,
                                   IF isCorner THEN 0 ELSE One)}

\* the threads from the first one that fails the bounds guard on all return
\* at the guard
RECURSIVE InitPass(_, _, _, _)
InitPass(params, mems, index, n) ==
    IF index >= n
          \/ U32GeBytes(index, U32MulBytes(AsU32(params[6]), AsU32(params[7])))
    THEN mems
    ELSE InitPass(params, UNION {InitMain(params, m, index) : m \in mems},
                  index + 1, n)

\* PBD stage 1, velocity of a free vertex (SimulationParams: dt, gravity,
\* gravityEnabled, padding)
Pbd1Velocity(params, velocity) ==
    IF AsF32(params[2]) * 2 > One
    THEN <<velocity[1],
           velocity[2] - FxMul(AsF32(params[1]), AsF32(params[0])),
           velocity[3]>>
    ELSE velocity

\* PBD stage 1: new velocity and predicted position of element i
Pbd1Main(params, pos, vel, inv, i) ==
    IF inv[i] = 0
    THEN [velocity |-> Vec3At(vel, i), predicted |-> Vec3At(pos, i)]
    ELSE LET velocity == Pbd1Velocity(params, Vec3At(vel, i))
         IN  [velocity  |-> velocity,
              predicted |-> VAdd(Vec3At(pos, i), VScale(velocity, AsF32(params[0])))]

\* one array<vec3<f32>> buffer after a pass in which thread i < n, if it is
\* inside the array, stores new[i]
StorePerElement(buf, n, new) ==
    [k \in DOMAIN buf |->
        IF k \div 4 < n /\ k \div 4 < arrayLength(buf) /\ k % 4 < 3
        THEN new[k \div 4][(k % 4) + 1]
        ELSE buf[k]]

Pbd1Pass(params, pos, vel, pred, inv, n) ==
    LET m == Min(n, arrayLength(pos))
        v == [i \in 0..(m - 1) |-> Pbd1Main(params, pos, vel, inv, i).velocity]
        p == [i \in 0..(m - 1) |-> Pbd1Main(params, pos, vel, inv, i).predicted]
    IN  [velocities         |-> StorePerElement(vel, m, v),
         predictedPositions |-> StorePerElement(pred, m, p)]

\* the fields of stage 3's SimulationParams: dt, damping, padding1, padding2
Pbd3Dt(params) == AsF32(params[0])
Pbd3Damping(params) == AsF32(params[1])

\* PBD stage 3
Pbd3Main(params, pos, pred, vel, inv, i) ==
    IF inv[i] = 0
    THEN [velocity |-> Vec3At(vel, i), position |-> Vec3At(pos, i)]
    ELSE LET oldPos == Vec3At(pos, i)
             newPos == Vec3At(pred, i)
             velocity == VDivS(VSub(newPos, oldPos), Pbd3Dt(params))
         IN  [velocity |-> VScale(velocity, Pbd3Damping(params)),
              position |-> newPos]

Pbd3Pass(params, pos, pred, vel, inv, n) ==
    LET m == Min(n, arrayLength(pos))
        v == [i \in 0..(m - 1) |-> Pbd3Main(params, pos, pred, vel, inv, i).velocity]
        p == [i \in 0..(m - 1) |-> Pbd3Main(params, pos, pred, vel, inv, i).position]
    IN  [velocities |-> StorePerElement(vel, m, v),
         positions  |-> StorePerElement(pos, m, p)]

\* sine driver (SineWaveParams: time, amplitude, frequency as f32,
\* centerVertexIndex as u32)
SineY(params) == FxMul(AsF32(params[1]), Sin(FxMul(AsF32(params[2]), AsF32(params[0]))))

SineMain(params, pos, vel) ==
    LET index == AsU32(params[3])
    IN  {[positions |-> p, velocities |-> v] :
            p \in StoreY(pos, index, SineY(params)),
            v \in StoreVec3(vel, index, Zero3)}

\* the number that stands for the length 1.0: One, or 100 * One in the
\* projection harness that resolves lengths below the guard of stage 2
\* (inverse masses and ratios are in units of 1/One throughout)
LengthUnit == IF appPc = "fineProjection" THEN 100 * One ELSE One

\* PBD stage 2 guard: currentDist < 0.0001
LtEpsilon(currentDist) == currentDist < CeilDiv(LengthUnit, epsilonInv)

\* PBD stage 2, what thread index loads (ConstraintParams: iteration,
\* constraintCount as u32; constraintIndices: array<vec2<u32>>)
Pbd2Loads(pred, cIdx, cRest, inv, index) ==
    LET idxA == AsU32(cIdx[2 * index])
        idxB == AsU32(cIdx[2 * index + 1])
    IN  {[index |-> index, idxA |-> idxA, idxB |-> idxB,
          restLength |-> AsF32(cRest[index]),
          invMassA |-> mA, invMassB |-> mB, posA |-> pA, posB |-> pB] :
            mA \in LoadF32(inv, idxA), mB \in LoadF32(inv, idxB),
            pA \in LoadVec3(pred, idxA), pB \in LoadVec3(pred, idxB)}

\* the two early returns of the thread
Pbd2Returns(l) ==
    \/ l.invMassA + l.invMassB = 0
    \/ LtEpsilon(length(VSub(l.posB, l.posA)))

Pbd2Correction(l) ==
    LET delta == VSub(l.posB, l.posA)
        currentDist == length(delta)
        denominator == l.invMassA + l.invMassB
        lambda == FxDiv(currentDist - l.restLength, denominator)
        correctionDir == VDivS(delta, currentDist)
    IN  VScale(correctionDir, lambda)

\* the two stores with the corrections applied the wrong way round
Pbd2StoresSwappedSigns(pred, l) ==
    LET correction == Pbd2Correction(l)
        newA == VSub(l.posA, VScale(correction, l.invMassA))
        newB == VAdd(l.posB, VScale(correction, l.invMassB))
    IN  UNION {StoreVec3(p, l.idxB, newB) : p \in StoreVec3(pred, l.idxA, newA)}

\* the two stores of the thread
Pbd2Stores(pred, l) ==
    LET correction == Pbd2Correction(l)
        newA == VAdd(l.posA, VScale(correction, l.invMassA))
        newB == VSub(l.posB, VScale(correction, l.invMassB))
    IN  UNION {StoreVec3(p, l.idxB, newB) : p \in StoreVec3(pred, l.idxA, newA)}

\* The threads of one pass run concurrently and unsynchronised: every
\* interleaving of the threads' loads and stores is a possible outcome.
RECURSIVE Pbd2Outcomes(_, _, _, _, _, _)
Pbd2Outcomes(pred, cIdx, cRest, inv, unread, loaded) ==
    IF unread = {} /\ loaded = {} THEN {pred}
    ELSE (UNION {UNION {Pbd2Outcomes(pred, cIdx, cRest, inv, unread \ {i},
                                     IF Pbd2Returns(l) THEN loaded
                                                       ELSE loaded \cup {l}) :
                          l \in Pbd2Loads(pred, cIdx, cRest, inv, i)} :
                  i \in unread})
         \cup
         (UNION {UNION {Pbd2Outcomes(p, cIdx, cRest, inv, unread, loaded \ {l}) :
                          p \in Pbd2Stores(pred, l)} :
                  l \in loaded})

\* a thread whose endpoints are both pinned whatever it loads stores nothing
Pbd2MayStore(cIdx, inv, index) ==
    \E mA \in LoadF32(inv, AsU32(cIdx[2 * index])),
       mB \in LoadF32(inv, AsU32(cIdx[2 * index + 1])) : mA + mB # 0

Pbd2Pass(params, pred, cIdx, cRest, inv, n) ==
    LET count == Min(n, AsU32(params[1]))
        threads == {i \in 0..(count - 1) : Pbd2MayStore(cIdx, inv, i)}
    IN  Pbd2Outcomes(pred, cIdx, cRest, inv, threads, {})

\* PBD stage 2 of the variant that corrects `positions` in place
\* (constraintIndices: array<u32>, no bounds guard): what a thread loads
LoadCell(buf, i) ==
    IF i \in DOMAIN buf THEN {buf[i]}
    ELSE IF outOfBounds = "clamp" /\ Size(buf) > 0 THEN {buf[Size(buf) - 1]}
    ELSE {ZeroCell}

LegacyPbd2Loads(pos, cIdx, rest, inv, index) ==
    UNION {UNION {
        {[vertexA |-> AsU32(a), vertexB |-> AsU32(b), restLength |-> AsF32(r),
          invMassA |-> mA, invMassB |-> mB, posA |-> pA, posB |-> pB] :
            r \in LoadCell(rest, index),
            mA \in LoadF32(inv, AsU32(a)), mB \in LoadF32(inv, AsU32(b)),
            pA \in LoadVec3(pos, AsU32(a)), pB \in LoadVec3(pos, AsU32(b))} :
        b \in LoadCell(cIdx, index * 2 + 1)} : a \in LoadCell(cIdx, index * 2)}

\* skip if either vertex is pinned, skip if the distance is zero
LegacyPbd2Returns(l) ==
    \/ l.invMassA = 0 \/ l.invMassB = 0
    \/ length(VSub(l.posA, l.posB)) = 0

LegacyPbd2Stores(pos, l) ==
    LET diff == VSub(l.posA, l.posB)
        currentDist == length(diff)
        diffRatio == FxDiv(currentDist - l.restLength, currentDist)
        correction == VScale(VScale(diff, diffRatio), One \div 2)
        totalInvMass == l.invMassA + l.invMassB
        correctionA == VDivS(VScale(correction, l.invMassA), totalInvMass)
        correctionB == VDivS(VScale(correction, l.invMassB), totalInvMass)
    IN  IF totalInvMass > 0
        THEN UNION {StoreVec3(p, l.vertexB, VAdd(l.posB, correctionB)) :
                      p \in StoreVec3(pos, l.vertexA, VSub(l.posA, correctionA))}
        ELSE {pos}

\* PBD stage 1 of the variant that predicts into `positions` in place
\* (uniforms: dt, gravity, damping; velocities: array<vec4f>; no bounds
\* guard): the buffers after thread index
LegacyPbd1Main(uniforms, pos, vel, inv, index) ==
    UNION {IF m = 0 THEN {[positions |-> pos, velocities |-> vel]}
           ELSE UNION {UNION {UNION {
                   {[positions |-> q, velocities |-> w] :
                       q \in StoreVec3(pos, index, VAdd(p, VScale(u, uniforms[1])))} :
                   p \in LoadVec3(pos, index), u \in LoadVec3(w, index)} :
                   w \in StoreY(vel, index, v[2] - FxMul(uniforms[2], uniforms[1]))} :
                   v \in LoadVec3(vel, index)} :
           m \in LoadF32(inv, index)}

(***************************************************************************)
(* JavaScript side of setup.                                               *)
(***************************************************************************)
\* generateTriangleIndices: the index list before the Uint16Array conversion
RECURSIVE TriangleIndicesFrom(_, _, _)
\* the second triangle pushed as top-right, bottom-right, bottom-left
TriangleCellFlipped(rx, cell) ==
    LET z == cell \div (rx - 1)
        x == cell % (rx - 1)
        topLeft == z * rx + x
        topRight == topLeft + 1
        bottomLeft == (z + 1) * rx + x
        bottomRight == bottomLeft + 1
    IN  <<topLeft, bottomLeft, topRight, topRight, bottomRight, bottomLeft>>

\* generateTriangleIndices: the body of the inner loop, for cell z * (rx-1) + x
TriangleCell(rx, cell) ==
    LET z == cell \div (rx - 1)
        x == cell % (rx - 1)
        topLeft == z * rx + x
        topRight == topLeft + 1
        bottomLeft == (z + 1) * rx + x
        bottomRight == bottomLeft + 1
    IN  <<topLeft, bottomLeft, topRight, topRight, bottomLeft, bottomRight>>

\* initializeClothData of the class constructed from a resolution: the six
\* indices of cell i * (resolution-1) + j
LegacyTriangleCell(resolution, cell) ==
    LET i == cell \div (resolution - 1)
        j == cell % (resolution - 1)
        a == i * resolution + j
        b == a + 1
        c == (i + 1) * resolution + j
        d == c + 1
    IN  <<a, b, c, b, d, c>>

\* generateTriangleIndices: one iteration of the outer loop
TriangleRow(rx, z) ==
    [k \in 1..(6 * (rx - 1)) |->
        TriangleCell(rx, z * (rx - 1) + (k - 1) \div 6)[((k - 1) % 6) + 1]]

TriangleIndicesFrom(rx, ry, cell) ==
    IF cell >= (rx - 1) * (ry - 1) THEN <<>>
    ELSE TriangleCell(rx, cell) \o TriangleIndicesFrom(rx, ry, cell + 1)

generateTriangleIndices(rx, ry) ==
    IF rx < 2 \/ ry < 2 THEN <<>> ELSE TriangleIndicesFrom(rx, ry, 0)

\* generateConstraints: distance(a, b)
distance(a, b) ==
    LET dx == a[1] - b[1]
        dy == a[2] - b[2]
        dz == a[3] - b[3]
    IN  length(<<dx, dy, dz>>)

\* generateConstraints pushing the vertical constraint of a vertex before its
\* horizontal one
RECURSIVE ConstraintsVerticalFirst(_, _, _, _, _)
ConstraintsVerticalFirst(rx, ry, positionData, idx, end) ==
    IF idx >= end THEN <<>>
    ELSE LET x == idx % rx
             z == idx \div rx
             rightIdx == idx + 1
             bottomIdx == idx + rx
         IN  (IF z < ry - 1
              THEN <<<<idx, bottomIdx,
                       distance(getPos(positionData, idx), getPos(positionData, bottomIdx))>>>>
              ELSE <<>>)
             \o
             (IF x < rx - 1
              THEN <<<<idx, rightIdx,
                       distance(getPos(positionData, idx), getPos(positionData, rightIdx))>>>>
              ELSE <<>>)
             \o ConstraintsVerticalFirst(rx, ry, positionData, idx + 1, end)

\* generateConstraints: the loop over z and x, from vertex idx on; each entry
\* is <<a, b, restLength>>
RECURSIVE ConstraintsBetween(_, _, _, _, _)
ConstraintsBetween(rx, ry, positionData, idx, end) ==
    IF idx >= end THEN <<>>
    ELSE LET x == idx % rx
             z == idx \div rx
             rightIdx == idx + 1
             bottomIdx == idx + rx
         IN  (IF x < rx - 1
              THEN <<<<idx, rightIdx,
                       distance(getPos(positionData, idx), getPos(positionData, rightIdx))>>>>
              ELSE <<>>)
             \o
             (IF z < ry - 1
              THEN <<<<idx, bottomIdx,
                       distance(getPos(positionData, idx), getPos(positionData, bottomIdx))>>>>
              ELSE <<>>)
             \o ConstraintsBetween(rx, ry, positionData, idx + 1, end)

ConstraintsFrom(rx, ry, positionData, idx) ==
    ConstraintsBetween(rx, ry, positionData, idx, rx * ry)

\* constraintIndexData and constraintRestLengthData
constraintIndexData(cs) ==
    Uint32Array([k \in 1..(2 * Len(cs)) |-> cs[(k + 1) \div 2][IF k % 2 = 1 THEN 1 ELSE 2]])
constraintRestLengthData(cs) == Float32Array([k \in 1..Len(cs) |-> cs[k][3]])

(***************************************************************************)
(* State.                                                                  *)
(***************************************************************************)
VARIABLES
    \* utils/config.js: config.cloth and config.simulation
    resolutionX, resolutionY, gravityEnabled, constraintIterations,
    \* ClothSimulation fields
    derivedConfig, time, constraintCount, initialized,
    genPc,            \* where generateConstraints() is: "idle", "mapAsync", "done"
    pbd2BindGroup, sineBindGroup,     \* TRUE once created
    \* GPU buffers (<<>> while not created)
    positions, predictedPositions, velocities, inverseMasses,
    indices, constraintIndices, constraintRestLengths,
    staging,          \* the staging buffer of readBufferToCPU
    initParams, simParams, constraintParams, sineParams,
    \* device.queue: operations submitted and not yet executed, oldest first
    queue,
    \* ClothSimulationApp
    isRunning, testMode, pendingFrames, toggles,
    \* history
    encodedPasses,    \* compute passes recorded by the last simulate()
    lastPass,         \* pipeline of the pass the GPU executed last
    driveTime,        \* params.time of the last sine pass executed
    predictOut,       \* predictedPositions as the last stage 1 pass left them
    restPositions,    \* positions and velocities of the rest state the run
    restVelocities,   \*   started from (solver harness), <<>> otherwise
    driven,           \* TRUE once a sine pass has changed the position buffer
    projBefore,       \* loads of the projection under test (projection harness)
    tickInfo,         \* the last simulate(): its number, and gravityEnabled and
                      \*   the number of toggles when it was called
    predictParams,    \* simParams as the last stage 1 pass read them
    preIntegrate,     \* the vertex buffers as the last stage 3 pass found them
    setupPc,          \* position of the host in constructor and initialize()
                      \*   when setup is taken one loop iteration at a time,
                      \*   "none" otherwise
    row,              \* z of the generation loop that is running
    list              \* the array that loop has pushed to so far

cfgVars == <<resolutionX, resolutionY, gravityEnabled, constraintIterations,
             outOfBounds>>
simVars == <<derivedConfig, time, constraintCount, initialized, genPc,
             pbd2BindGroup, sineBindGroup>>
vertexVars == <<positions, predictedPositions, velocities, inverseMasses>>
dataVars == <<indices, constraintIndices, constraintRestLengths, staging>>
uniformVars == <<initParams, simParams, constraintParams, sineParams>>
appVars == <<appPc, isRunning, testMode, pendingFrames, toggles>>
tickHist == <<tickInfo, predictParams, preIntegrate>>
setupVars == <<setupPc, row, list>>
histVars == <<encodedPasses, lastPass, driveTime, predictOut,
              restPositions, restVelocities, driven, projBefore, tickHist,
              setupVars>>
vars == <<cfgVars, simVars, vertexVars, dataVars, uniformVars, queue,
          appVars, histVars>>

\* queue entries; tick is the number of the simulate() call that issued the
\* entry, 0 for an entry issued outside simulate()
WriteOp(buf, data) ==
    [op |-> "write", buf |-> buf, data |-> data, groups |-> 0, tick |-> 0]
CopyOp(buf) ==
    [op |-> "copy", buf |-> buf, data |-> null, groups |-> 0, tick |-> 0]
PassOp(pipeline, groups) ==
    [op |-> "pass", buf |-> pipeline, data |-> null, groups |-> groups, tick |-> 0]
InTick(ops, n) == [i \in DOMAIN ops |-> [ops[i] EXCEPT !.tick = n]]

(***************************************************************************)
(* new ClothSimulationApp(), new ClothSimulation(device)                   *)
(***************************************************************************)
Init ==
    /\ resolutionX \in 2..MaxRes
    /\ resolutionY \in 2..MaxRes
    /\ gravityEnabled \in BOOLEAN
    /\ constraintIterations \in 0..MaxIterations
    /\ outOfBounds \in {"skip", "clamp"}
    /\ derivedConfig = getDeriveConfig(resolutionX, resolutionY)
    /\ time = 0
    /\ constraintCount = 0
    /\ initialized = FALSE
    /\ genPc = "idle"
    /\ pbd2BindGroup = FALSE
    /\ sineBindGroup = FALSE
    /\ positions = <<>> /\ predictedPositions = <<>> /\ velocities = <<>>
    /\ inverseMasses = <<>> /\ indices = <<>>
    /\ constraintIndices = <<>> /\ constraintRestLengths = <<>>
    /\ staging = <<>>
    /\ initParams = <<>> /\ simParams = <<>>
    /\ constraintParams = <<>> /\ sineParams = <<>>
    /\ queue = <<>>
    /\ appPc = "constructed"
    /\ isRunning = FALSE
    /\ testMode = FALSE
    /\ pendingFrames = 0
    /\ toggles = 0
    /\ encodedPasses = <<>>
    /\ lastPass = "none"
    /\ driveTime = 0
    /\ predictOut = <<>>
    /\ restPositions = <<>>
    /\ restVelocities = <<>>
    /\ driven = FALSE
    /\ projBefore = <<>>
    /\ tickInfo = [ticks |-> 0, gravityEnabled |-> gravityEnabled, toggles |-> 0]
    /\ predictParams = <<>>
    /\ preIntegrate = <<>>
    /\ setupPc = "none"
    /\ row = 0
    /\ list = <<>>

(***************************************************************************)
(* ClothSimulation.initialize(): createBuffers, createComputeBindGroups,   *)
(* createComputePipelines, initializePositions, generateTriangleIndices,   *)
(* and generateConstraints() up to its first await (the call is not        *)
(* awaited), then initialized = true.                                      *)
(***************************************************************************)
simParamsData(ge) == Float32Array(<<dt, gravity, IF ge THEN One ELSE 0, damping>>)

Dispatch(pipeline, count) ==
    IF CeilDiv(Max(0, count), Max(1, workgroupSize)) > 0
    THEN <<PassOp(pipeline, CeilDiv(Max(0, count), Max(1, workgroupSize)))>>
    ELSE <<>>

Initialize ==
    /\ appPc = "constructed"
    /\ appPc' = "initialized"
    \* createBuffers
    /\ positions' = createFloatBuffer(derivedConfig.vertexCount * 3)
    /\ predictedPositions' = createFloatBuffer(derivedConfig.vertexCount * 3)
    /\ velocities' = createFloatBuffer(derivedConfig.vertexCount * 3)
    /\ inverseMasses' = createFloatBuffer(derivedConfig.vertexCount)
    /\ indices' = createFloatBuffer(derivedConfig.triangleCount * 3)
    /\ initParams' = createBuffer(32,
           Float32Array(<<width, height, TDiv(-width, 2), TDiv(-height, 2),
                          derivedConfig.spacingX, derivedConfig.spacingY,
                          resolutionX * One, resolutionY * One>>))
    /\ simParams' = createBuffer(16, simParamsData(gravityEnabled))
    /\ constraintParams' = createBuffer(16, Uint32Array(<<0, 0, 0, 0>>))
    /\ sineParams' = createBuffer(16,
           Float32Array(<<0, amplitude, frequency, derivedConfig.centerIndex * One>>))
    \* initializePositions, generateTriangleIndices, readBufferToCPU
    /\ queue' = queue
                \o Dispatch("init", derivedConfig.vertexCount)
                \o <<WriteOp("indices",
                             Uint16Array(generateTriangleIndices(resolutionX, resolutionY)))>>
                \o <<CopyOp("positions")>>
    /\ genPc' = "mapAsync"
    /\ initialized' = TRUE
    /\ UNCHANGED <<cfgVars, derivedConfig, time, constraintCount,
                   pbd2BindGroup, sineBindGroup,
                   constraintIndices, constraintRestLengths, staging,
                   isRunning, testMode, pendingFrames, toggles, histVars>>

(***************************************************************************)
(* generateConstraints() after `await this.readBufferToCPU(...)`: runs     *)
(* once the copy has been executed and the staging buffer is mapped.       *)
(***************************************************************************)
GenerateConstraints ==
    /\ genPc = "mapAsync"
    /\ staging # <<>>
    /\ LET cs == ConstraintsFrom(resolutionX, resolutionY, staging, 0)
       IN  /\ constraintIndices' =
                  createBuffer(byteLength(constraintIndexData(cs)), constraintIndexData(cs))
           /\ constraintRestLengths' =
                  createBuffer(byteLength(constraintRestLengthData(cs)),
                               constraintRestLengthData(cs))
           /\ constraintCount' = Max(0, Len(cs))
           /\ queue' = Append(queue, WriteOp("constraintParams",
                                             Uint32Array(<<0, Max(0, Len(cs)), 0, 0>>)))
    /\ pbd2BindGroup' = TRUE
    /\ sineBindGroup' = TRUE
    /\ genPc' = "done"
    /\ UNCHANGED <<cfgVars, derivedConfig, time, initialized, vertexVars,
                   indices, staging, uniformVars, appVars, histVars>>

(***************************************************************************)
(* ClothSimulation.simulate(commandEncoder)                                *)
(***************************************************************************)
RECURSIVE Repeat(_, _)
Repeat(seq, n) == IF n <= 0 THEN <<>> ELSE seq \o Repeat(seq, n - 1)

sineParamsData(t, centerIndex) ==
    Float32Array(<<t, amplitude, frequency, centerIndex * One>>)

\* simulate() writing the sine parameters into the index buffer
SimulateWritesToIndices(t, centerIndex, iterationCount, safeConstraintCount) ==
    <<WriteOp("indices", sineParamsData(t, centerIndex))>>
    \o [i \in 1..iterationCount |->
          WriteOp("constraintParams", Uint32Array(<<i - 1, safeConstraintCount, 0, 0>>))]

\* the queue.writeBuffer calls of one simulate(), in call order
SimulateWrites(t, centerIndex, iterationCount, safeConstraintCount) ==
    <<WriteOp("sineParams", sineParamsData(t, centerIndex))>>
    \o [i \in 1..iterationCount |->
          WriteOp("constraintParams", Uint32Array(<<i - 1, safeConstraintCount, 0, 0>>))]

\* stage 2 of simulate(): the passes of the iteration loop
Stage2Passes(iterationCount, safeConstraintCount) ==
    Repeat(IF safeConstraintCount > 0 THEN Dispatch("pbd2", safeConstraintCount)
                                      ELSE <<>>,
           iterationCount)

\* the dispatches simulate() records, in order
SimulatePasses(safeVertexCount, safeConstraintCount, iterationCount) ==
    Dispatch("pbd1", safeVertexCount)
    \o Stage2Passes(iterationCount, safeConstraintCount)
    \o Dispatch("pbd3", safeVertexCount)
    \o <<PassOp("sine", 1)>>

Pipelines(passes) == [i \in DOMAIN passes |-> passes[i].buf]

(***************************************************************************)
(* ClothSimulationApp.animate(), entered from start() at the end of        *)
(* ClothSimulationApp.initialize() or as an animation-frame callback.      *)
(***************************************************************************)
FrameReady ==
    \/ appPc = "initialized"
    \/ appPc = "started" /\ isRunning /\ pendingFrames > 0

\* callbacks still pending when the frame body runs
FrameBase == IF appPc = "initialized" THEN pendingFrames ELSE pendingFrames - 1

FrameWrites ==
    SimulateWrites(time + dt, derivedConfig.centerIndex, constraintIterations,
                   Max(0, constraintCount))

FramePasses ==
    SimulatePasses(Max(0, derivedConfig.vertexCount), Max(0, constraintCount),
                   constraintIterations)

\* animate() recording the render pass before it calls simulate()
EncodeFrameRenderFirst(passes) == <<PassOp("render", 0)>> \o passes

\* the command buffer of a frame: simulate(commandEncoder), then
\* renderer.render(commandEncoder, ...)
EncodeFrame(passes) == passes \o <<PassOp("render", 0)>>

\* the simulate() call of this frame
ThisTick ==
    [ticks |-> tickInfo.ticks + 1, gravityEnabled |-> gravityEnabled,
     toggles |-> toggles]

\* a frame of a fully set-up simulation: simulate, render, submit, request
\* the next frame
AnimateTick ==
    /\ FrameReady
    /\ ~testMode
    /\ sineBindGroup
    /\ time < MaxTicks * dt
    /\ Len(queue) <= MaxPending
    /\ time' = time + dt
    /\ encodedPasses' = Pipelines(FramePasses)
    /\ queue' = queue \o InTick(FrameWrites \o EncodeFrame(FramePasses),
                                tickInfo.ticks + 1)
    /\ tickInfo' = ThisTick
    /\ pendingFrames' = FrameBase + 1
    /\ appPc' = "started"
    /\ isRunning' = TRUE
    /\ UNCHANGED <<cfgVars, derivedConfig, constraintCount, initialized, genPc,
                   pbd2BindGroup, sineBindGroup, vertexVars, dataVars,
                   uniformVars, testMode, toggles,
                   lastPass, driveTime, predictOut, restPositions,
                   restVelocities, driven, projBefore, setupVars, predictParams,
                   preIntegrate>>

\* a frame while this.sineBindGroup is still undefined: setBindGroup(0,
\* undefined) unsets the group, the dispatch fails validation, the command
\* buffer is invalid and submit() executes nothing of it.  The writeBuffer
\* calls have been made.
AnimateInvalid ==
    /\ FrameReady
    /\ ~testMode
    /\ ~sineBindGroup
    /\ time < MaxTicks * dt
    /\ Len(queue) <= MaxPending
    /\ time' = time + dt
    /\ encodedPasses' = Pipelines(FramePasses)
    /\ queue' = queue \o InTick(FrameWrites, tickInfo.ticks + 1)
    /\ tickInfo' = ThisTick
    /\ pendingFrames' = FrameBase + 1
    /\ appPc' = "started"
    /\ isRunning' = TRUE
    /\ UNCHANGED <<cfgVars, derivedConfig, constraintCount, initialized, genPc,
                   pbd2BindGroup, sineBindGroup, vertexVars, dataVars,
                   uniformVars, testMode, toggles,
                   lastPass, driveTime, predictOut, restPositions,
                   restVelocities, driven, projBefore, setupVars, predictParams,
                   preIntegrate>>

\* the same frame on an implementation whose setBindGroup rejects undefined
\* with a TypeError: animate() is left before submit() and before
\* requestAnimationFrame()
AnimateThrows ==
    /\ FrameReady
    /\ ~testMode
    /\ ~sineBindGroup
    /\ time < MaxTicks * dt
    /\ Len(queue) <= MaxPending
    /\ time' = time + dt
    /\ encodedPasses' = SubSeq(Pipelines(FramePasses), 1, Len(FramePasses) - 1)
    /\ queue' = queue \o InTick(FrameWrites, tickInfo.ticks + 1)
    /\ tickInfo' = ThisTick
    /\ pendingFrames' = FrameBase
    /\ appPc' = "started"
    /\ isRunning' = TRUE
    /\ UNCHANGED <<cfgVars, derivedConfig, constraintCount, initialized, genPc,
                   pbd2BindGroup, sineBindGroup, vertexVars, dataVars,
                   uniformVars, testMode, toggles,
                   lastPass, driveTime, predictOut, restPositions,
                   restVelocities, driven, projBefore, setupVars, predictParams,
                   preIntegrate>>

(***************************************************************************)
(* UIHandler: the gravity toggle's change listener.                        *)
(***************************************************************************)
ToggleGravity ==
    /\ appPc = "started"
    /\ toggles < MaxToggles
    /\ toggles' = toggles + 1
    /\ gravityEnabled' = ~gravityEnabled
    \* updateSimulationParams()
    /\ queue' = Append(queue, WriteOp("simParams", simParamsData(~gravityEnabled)))
    /\ UNCHANGED <<resolutionX, resolutionY, constraintIterations, outOfBounds, simVars,
                   vertexVars, dataVars, uniformVars,
                   appPc, isRunning, testMode, pendingFrames, histVars>>

(***************************************************************************)
(* The main loop that drives the class constructed from a resolution:      *)
(* render(currentTime) calls cloth.simulate(gravity, currentTime / 1000),  *)
(* which hands its arguments to updateUniforms.  currentTime is the        *)
(* animation-frame timestamp in milliseconds.                              *)
(***************************************************************************)
ClockStamps == {16, 17, 33}

LegacyFrameTime(currentTime) == TDiv(currentTime * One, 1000)

\* updateUniforms(gravityEnabled, time) of the object self
updateUniforms(self, resolution, ge, t) ==
    Float32Array(<<dt, IF ge THEN gravity ELSE 0, damping, 5 * One,
                   resolution * One, self.vertexCount * One,
                   self.constraintCount * One, t,
                   0, 0, 0, 0, 0, 0, 0, 0>>)

(***************************************************************************)
(* The GPU executes the oldest operation of the queue.                     *)
(***************************************************************************)
HeadIs(op, buf) == queue # <<>> /\ Head(queue).op = op /\ Head(queue).buf = buf

Threads == Head(queue).groups * shaderWorkgroupSize

GpuWriteBuffer ==
    /\ queue # <<>>
    /\ Head(queue).op = "write"
    /\ queue' = Tail(queue)
    /\ LET h == Head(queue)
       IN  /\ indices' = IF h.buf = "indices"
                         THEN [i \in DOMAIN indices |->
                                 IF i + 1 <= Len(h.data.elems) THEN h.data.elems[i + 1]
                                                               ELSE indices[i]]
                         ELSE indices
           /\ simParams' = IF h.buf = "simParams" THEN writeBuffer(simParams, h.data)
                                                  ELSE simParams
           /\ constraintParams' = IF h.buf = "constraintParams"
                                  THEN writeBuffer(constraintParams, h.data)
                                  ELSE constraintParams
           /\ sineParams' = IF h.buf = "sineParams" THEN writeBuffer(sineParams, h.data)
                                                     ELSE sineParams
    /\ UNCHANGED <<cfgVars, simVars, vertexVars, constraintIndices,
                   constraintRestLengths, staging, initParams, appVars, histVars>>

\* copyBufferToBuffer(positions -> stagingBuffer)
GpuCopy ==
    /\ HeadIs("copy", "positions")
    /\ queue' = Tail(queue)
    /\ staging' = positions
    /\ UNCHANGED <<cfgVars, simVars, vertexVars, indices, constraintIndices,
                   constraintRestLengths, uniformVars, appVars, histVars>>

GpuInit ==
    /\ HeadIs("pass", "init")
    /\ queue' = Tail(queue)
    /\ \E m \in InitPass(initParams,
                         {[positions |-> positions, velocities |-> velocities,
                           inverseMasses |-> inverseMasses]}, 0, Threads) :
          /\ positions' = m.positions
          /\ velocities' = m.velocities
          /\ inverseMasses' = m.inverseMasses
    /\ lastPass' = "init"
    /\ UNCHANGED <<cfgVars, simVars, predictedPositions, dataVars, uniformVars,
                   appVars, encodedPasses, driveTime, predictOut,
                   restPositions, restVelocities, driven, projBefore, setupVars, tickHist>>

GpuPredict ==
    /\ HeadIs("pass", "pbd1")
    /\ queue' = Tail(queue)
    /\ LET out == Pbd1Pass(simParams, positions, velocities, predictedPositions,
                           inverseMasses, Threads)
       IN  /\ velocities' = out.velocities
           /\ predictedPositions' = out.predictedPositions
           /\ predictOut' = out.predictedPositions
    /\ predictParams' = simParams
    /\ lastPass' = "pbd1"
    /\ UNCHANGED <<cfgVars, simVars, positions, inverseMasses, dataVars,
                   uniformVars, appVars, encodedPasses, driveTime,
                   restPositions, restVelocities, driven, projBefore, setupVars, tickInfo,
                   preIntegrate>>

GpuConstrain ==
    /\ HeadIs("pass", "pbd2")
    /\ queue' = Tail(queue)
    /\ predictedPositions' \in Pbd2Pass(constraintParams, predictedPositions,
                                        constraintIndices, constraintRestLengths,
                                        inverseMasses, Threads)
    /\ lastPass' = "pbd2"
    /\ UNCHANGED <<cfgVars, simVars, positions, velocities, inverseMasses,
                   dataVars, uniformVars, appVars, encodedPasses, driveTime,
                   predictOut, restPositions, restVelocities, driven, projBefore, setupVars, tickHist>>

\* stage 3 is bound to pbd1BindGroup, whose bindings are those of stage 1:
\* its params are the simParams buffer, its binding 2 (predictedPositions,
\* read) is the velocity buffer and its binding 3 (velocities, read_write)
\* is the predicted-position buffer
Pbd3Bound == [predictedPositions |-> velocities, velocities |-> predictedPositions]

GpuIntegrate ==
    /\ HeadIs("pass", "pbd3")
    /\ queue' = Tail(queue)
    /\ LET out == Pbd3Pass(simParams, positions, Pbd3Bound.predictedPositions,
                           Pbd3Bound.velocities, inverseMasses, Threads)
       IN  /\ predictedPositions' = out.velocities
           /\ positions' = out.positions
    /\ preIntegrate' = [positions |-> positions, velocities |-> velocities,
                        predictedPositions |-> predictedPositions]
    /\ lastPass' = "pbd3"
    /\ UNCHANGED <<cfgVars, simVars, velocities, inverseMasses, dataVars,
                   uniformVars, appVars, encodedPasses, driveTime, predictOut,
                   restPositions, restVelocities, driven, projBefore, setupVars, tickInfo,
                   predictParams>>

GpuDrive ==
    /\ HeadIs("pass", "sine")
    /\ queue' = Tail(queue)
    /\ \E m \in SineMain(sineParams, positions, velocities) :
          /\ positions' = m.positions
          /\ velocities' = m.velocities
    /\ lastPass' = "sine"
    /\ driveTime' = AsF32(sineParams[0])
    /\ driven' = (driven \/ positions' # positions)
    /\ UNCHANGED <<cfgVars, simVars, predictedPositions, inverseMasses, dataVars,
                   uniformVars, appVars, encodedPasses, predictOut,
                   restPositions, restVelocities, projBefore, setupVars, tickHist>>

\* Renderer.render reads the position and index buffers; the render pass
\* of the test triangle reads neither
GpuRender ==
    /\ queue # <<>>
    /\ Head(queue).op = "pass"
    /\ Head(queue).buf \in {"render", "testTriangle"}
    /\ queue' = Tail(queue)
    /\ lastPass' = Head(queue).buf
    /\ UNCHANGED <<cfgVars, simVars, vertexVars, dataVars, uniformVars, appVars,
                   encodedPasses, driveTime, predictOut, restPositions,
                   restVelocities, driven, projBefore, setupVars, tickHist>>

Next ==
    \/ Initialize
    \/ GenerateConstraints
    \/ AnimateTick
    \/ AnimateInvalid
    \/ AnimateThrows
    \/ ToggleGravity
    \/ GpuWriteBuffer
    \/ GpuCopy
    \/ GpuInit
    \/ GpuPredict
    \/ GpuConstrain
    \/ GpuIntegrate
    \/ GpuDrive
    \/ GpuRender

Spec == Init /\ [][Next]_vars

(***************************************************************************)
(* Claims about the application.                                           *)
(***************************************************************************)
\* the corner vertices of the grid
Corners == {0, resolutionX - 1, (resolutionY - 1) * resolutionX,
            resolutionY * resolutionX - 1}

\* C1: the position of each of the four corner vertices, as the host and the
\* renderer read it (three floats per vertex), is at every moment after setup
\* the position the setup readback saw.
C1_CornersKeepSetupPosition ==
    staging # <<>> =>
        \A k \in Corners : getPos(positions, k) = getPos(staging, k)

\* C2: every simulate() records Predict, then Constrain exactly
\* constraintIterations times, then Integrate, then Drive.
C2_StagesInOrder ==
    encodedPasses # <<>> =>
        encodedPasses = <<"pbd1">> \o [i \in 1..constraintIterations |-> "pbd2"]
                        \o <<"pbd3", "sine">>

\* C3: when the Drive pass of a tick has run, the vertex centerIndex has
\* position.y = amplitude * sin(frequency * t), t the time of that tick, and
\* velocity zero.
C3_DrivenVertexFollowsSine ==
    lastPass = "sine" =>
        /\ getPos(positions, derivedConfig.centerIndex)[2]
              = FxMul(amplitude, Sin(FxMul(frequency, driveTime)))
        /\ getPos(velocities, derivedConfig.centerIndex) = Zero3

\* C4: after setup vertexCount = resolutionX * resolutionY and constraintCount
\* = (resolutionX-1)*resolutionY + resolutionX*(resolutionY-1), in the
\* config-driven class and (for a square grid) in the class constructed from
\* a resolution.
C4_CountsMatchGrid ==
    genPc = "done" =>
        /\ derivedConfig.vertexCount = resolutionX * resolutionY
        /\ constraintCount = (resolutionX - 1) * resolutionY
                             + resolutionX * (resolutionY - 1)
        /\ resolutionX = resolutionY =>
             /\ LegacyConstructor(resolutionX).vertexCount = resolutionX * resolutionY
             /\ LegacyConstructor(resolutionX).constraintCount
                   = (resolutionX - 1) * resolutionY + resolutionX * (resolutionY - 1)

\* C5: after setup the inverse mass of a vertex is 0 if it is one of the four
\* grid corners and exactly 1 otherwise.
C5_InverseMassZeroIffCorner ==
    staging # <<>> =>
        \A i \in 0..(derivedConfig.vertexCount - 1) :
            inverseMasses[i] = IF i \in Corners THEN 0 ELSE One

\* C6: whenever initialize() has resolved with initialized = true, the
\* constraint buffers exist, constraintCount is the number of generated
\* constraints and the Constrain and Drive bind groups exist.
C6_InitializedMeansSetUp ==
    initialized =>
        /\ constraintIndices # <<>>
        /\ constraintRestLengths # <<>>
        /\ constraintCount = (resolutionX - 1) * resolutionY
                             + resolutionX * (resolutionY - 1)
        /\ pbd2BindGroup
        /\ sineBindGroup

\* C7: once the constraints are generated, the rest length the Constrain
\* stage reads for every constraint is spacingX for a horizontal edge and
\* spacingY for a vertical edge.
C7_RestLengthIsGridSpacing ==
    genPc = "done" =>
        LET cs == ConstraintsFrom(resolutionX, resolutionY, staging, 0)
        IN  \A k \in 1..Len(cs) :
               AsF32(constraintRestLengths[k - 1])
                 = IF cs[k][2] = cs[k][1] + 1 THEN derivedConfig.spacingX
                                              ELSE derivedConfig.spacingY

(***************************************************************************)
(* The solver on a cloth at or near rest.  The buffers hold the grid the   *)
(* setup is written to produce, in the layout the host reads and the       *)
(* renderer fetches (three floats per vertex): positions on the grid, the  *)
(* corners pinned, the first constraints of the generator with the rest    *)
(* lengths it computes from that grid, and the parameters as               *)
(* updateSimulationParams writes them.  One vertex may be lifted off the   *)
(* grid.  From there the frames and the GPU run as in the application.     *)
(***************************************************************************)
MaxConstraints == 2
SolverBumps == {0, 2 * One}

\* the position the init shader computes for vertex idx
gridPosition(rx, ry, idx) ==
    <<TDiv(-width, 2) + FxMul((idx % rx) * One, getDeriveConfig(rx, ry).spacingX),
      0,
      TDiv(-height, 2) + FxMul((idx \div rx) * One, getDeriveConfig(rx, ry).spacingY)>>

gridPositionData(rx, ry) ==
    [k \in 0..(rx * ry * 3 - 1) |-> gridPosition(rx, ry, k \div 3)[(k % 3) + 1]]

\* the inverse mass the init shader computes for vertex idx
gridInverseMass(rx, ry, idx) ==
    IF (idx % rx = 0 \/ idx % rx = rx - 1) /\ (idx \div rx = 0 \/ idx \div rx = ry - 1)
    THEN 0 ELSE One

\* every constraint the Constrain stage processes joins two vertices whose
\* distance is the stored rest length, and no vertex moves
AtRest(pos, vel, cIdx, cRest, count) ==
    /\ \A k \in DOMAIN vel : vel[k] = 0
    /\ \A c \in 0..(count - 1) :
          distance(getPos(pos, AsU32(cIdx[2 * c])), getPos(pos, AsU32(cIdx[2 * c + 1])))
             = AsF32(cRest[c])

SolverInit ==
    /\ resolutionX \in 2..MaxRes
    /\ resolutionY \in 2..MaxRes
    /\ gravityEnabled \in BOOLEAN
    /\ constraintIterations \in 0..MaxIterations
    /\ outOfBounds \in {"skip", "clamp"}
    /\ derivedConfig = getDeriveConfig(resolutionX, resolutionY)
    /\ time = 0
    /\ initialized = TRUE
    /\ genPc = "done"
    /\ pbd2BindGroup = TRUE
    /\ sineBindGroup = TRUE
    /\ \E k \in 0..MaxConstraints, bump \in SolverBumps,
          grid \in {gridPositionData(resolutionX, resolutionY)} :
         \E all \in {ConstraintsFrom(resolutionX, resolutionY, grid, 0)} :
         \E cs \in {SubSeq(all, 1, Min(k, Len(all)))} :
             /\ positions = [grid EXCEPT ![4] = grid[4] + bump]
             /\ staging = grid
             /\ constraintCount = Len(cs)
             /\ constraintIndices =
                   writeBuffer(createBuffer(byteLength(constraintIndexData(cs)), null),
                               constraintIndexData(cs))
             /\ constraintRestLengths =
                   writeBuffer(createBuffer(byteLength(constraintRestLengthData(cs)), null),
                               constraintRestLengthData(cs))
             /\ constraintParams = writeBuffer(createBuffer(16, null),
                                               Uint32Array(<<0, Len(cs), 0, 0>>))
    /\ predictedPositions = createFloatBuffer(derivedConfig.vertexCount * 3)
    /\ velocities = createFloatBuffer(derivedConfig.vertexCount * 3)
    /\ inverseMasses = [i \in 0..(derivedConfig.vertexCount - 1) |->
                          gridInverseMass(resolutionX, resolutionY, i)]
    /\ indices = [i \in 0..(derivedConfig.triangleCount * 3 - 1) |->
                    Uint16Array(generateTriangleIndices(resolutionX, resolutionY)).elems[i + 1]]
    /\ initParams = createBuffer(32, null)
    /\ simParams = writeBuffer(createBuffer(16, null), simParamsData(gravityEnabled))
    /\ sineParams = writeBuffer(createBuffer(16, null),
                                sineParamsData(0, derivedConfig.centerIndex))
    /\ queue = <<>>
    /\ appPc = "started"
    /\ isRunning = TRUE
    /\ testMode = FALSE
    /\ pendingFrames = 1
    /\ toggles = 0
    /\ encodedPasses = <<>>
    /\ lastPass = "none"
    /\ driveTime = 0
    /\ predictOut = <<>>
    /\ restPositions = IF ~gravityEnabled
                          /\ AtRest(positions, velocities, constraintIndices,
                                    constraintRestLengths, constraintCount)
                       THEN positions ELSE <<>>
    /\ restVelocities = velocities
    /\ driven = FALSE
    /\ projBefore = <<>>
    /\ tickInfo = [ticks |-> 0, gravityEnabled |-> gravityEnabled, toggles |-> 0]
    /\ predictParams = <<>>
    /\ preIntegrate = <<>>
    /\ setupPc = "none"
    /\ row = 0
    /\ list = <<>>

SolverNext ==
    \/ AnimateTick
    \/ GpuWriteBuffer
    \/ GpuPredict
    \/ GpuConstrain
    \/ GpuIntegrate
    \/ GpuDrive
    \/ GpuRender

SolverSpec == SolverInit /\ [][SolverNext]_vars

(***************************************************************************)
(* Claims about the solver.                                                *)
(***************************************************************************)
\* C8: a cloth that starts with gravity disabled, all velocities zero and
\* every constraint at its rest length, and that the Drive stage has not
\* displaced, keeps every position and velocity through any number of ticks.
C8_RestStateIsFixedPoint ==
    (restPositions # <<>> /\ ~driven) =>
        /\ positions = restPositions
        /\ velocities = restVelocities

\* C9: with constraintIterations = 0 the predicted positions Integrate is
\* about to consume, the buffer bound as its predictedPositions, are the
\* ones the Predict pass of the same tick wrote.
C9_ZeroIterationsKeepPrediction ==
    (constraintIterations = 0 /\ HeadIs("pass", "pbd3")) =>
        Pbd3Bound.predictedPositions = predictOut

\* C9 happens: Integrate is about to run in a tick with no iterations on a
\* cloth that has constraints, and Predict has moved a vertex
C9_Witness ==
    /\ constraintIterations = 0
    /\ HeadIs("pass", "pbd3")
    /\ constraintCount > 0
    /\ predictOut # <<>>
    /\ \E k \in DOMAIN positions : predictOut[k] # positions[k]

(***************************************************************************)
(* One projection of one constraint.  The two endpoints are elements 0 and *)
(* 1 of the position array the shader sees; their positions, inverse       *)
(* masses and the rest length are drawn from sets on which the fixed-point *)
(* arithmetic of the model is exact.  Thread 0 of the inverse-mass         *)
(* weighted stage 2 runs on predictedPositions, thread 0 of the            *)
(* half-correction stage 2 on positions.                                   *)
(***************************************************************************)
ProjOrigins == {Zero3, <<TDiv(-width, 2), 0, TDiv(-height, 2)>>}
ProjDirections == {<<5, 0, 0>>, <<0, 5, 0>>, <<0, 0, 5>>, <<3, 4, 0>>}
ProjLengths == {1600, 3200, 6400}

ProjBuffer(posA, posB) ==
    [k \in 0..11 |-> IF k < 3 THEN posA[k + 1]
                     ELSE IF k \in 4..6 THEN posB[k - 3]
                     ELSE 0]

ProjInit ==
    /\ resolutionX = 2
    /\ resolutionY = 2
    /\ gravityEnabled = FALSE
    /\ constraintIterations = 1
    /\ outOfBounds \in {"skip", "clamp"}
    /\ derivedConfig = getDeriveConfig(resolutionX, resolutionY)
    /\ time = 0
    /\ initialized = TRUE
    /\ genPc = "done"
    /\ pbd2BindGroup = TRUE
    /\ sineBindGroup = TRUE
    /\ \E o \in ProjOrigins, dir \in ProjDirections, d \in ProjLengths \cup {0},
          L \in ProjLengths, mA \in {0, One}, mB \in {0, One} :
         LET posA == o
             posB == VAdd(o, <<dir[1] * (d \div 5), dir[2] * (d \div 5), dir[3] * (d \div 5)>>)
         IN  /\ positions = ProjBuffer(posA, posB)
             /\ predictedPositions = ProjBuffer(posA, posB)
             /\ inverseMasses = [i \in 0..3 |-> IF i = 0 THEN mA ELSE IF i = 1 THEN mB ELSE 0]
             /\ constraintRestLengths =
                   writeBuffer(createBuffer(4, null), Float32Array(<<L>>))
             /\ projBefore = [dist |-> length(VSub(posB, posA)), restLength |-> L,
                              invMassA |-> mA, invMassB |-> mB]
    /\ constraintCount = 1
    /\ constraintIndices = writeBuffer(createBuffer(8, null), Uint32Array(<<0, 1>>))
    /\ constraintParams = writeBuffer(createBuffer(16, null), Uint32Array(<<0, 1, 0, 0>>))
    /\ velocities = createFloatBuffer(12)
    /\ indices = <<>>
    /\ staging = <<>>
    /\ initParams = createBuffer(32, null)
    /\ simParams = writeBuffer(createBuffer(16, null), simParamsData(gravityEnabled))
    /\ sineParams = writeBuffer(createBuffer(16, null),
                                sineParamsData(0, derivedConfig.centerIndex))
    /\ queue = <<>>
    /\ appPc = "projection"
    /\ isRunning = FALSE
    /\ testMode = FALSE
    /\ pendingFrames = 0
    /\ toggles = 0
    /\ encodedPasses = <<>>
    /\ lastPass = "none"
    /\ driveTime = 0
    /\ predictOut = <<>>
    /\ restPositions = <<>>
    /\ restVelocities = <<>>
    /\ driven = FALSE
    /\ tickInfo = [ticks |-> 0, gravityEnabled |-> gravityEnabled, toggles |-> 0]
    /\ predictParams = <<>>
    /\ preIntegrate = <<>>
    /\ setupPc = "none"
    /\ row = 0
    /\ list = <<>>

\* thread 0 of stage 2 (inverse-mass weighted)
Project ==
    /\ appPc \in {"projection", "fineProjection"}
    /\ lastPass = "none"
    /\ \E l \in Pbd2Loads(predictedPositions, constraintIndices,
                          constraintRestLengths, inverseMasses, 0) :
          predictedPositions' \in (IF Pbd2Returns(l) THEN {predictedPositions}
                                   ELSE Pbd2Stores(predictedPositions, l))
    /\ lastPass' = "pbd2"
    /\ UNCHANGED <<cfgVars, simVars, positions, velocities, inverseMasses, dataVars,
                   uniformVars, queue, appVars, encodedPasses, driveTime, predictOut,
                   restPositions, restVelocities, driven, projBefore, setupVars, tickHist>>

\* thread 0 of stage 2 (half correction, in place)
LegacyProject ==
    /\ appPc \in {"projection", "fineProjection"}
    /\ lastPass = "none"
    /\ \E l \in LegacyPbd2Loads(positions, constraintIndices,
                                constraintRestLengths, inverseMasses, 0) :
          positions' \in (IF LegacyPbd2Returns(l) THEN {positions}
                          ELSE LegacyPbd2Stores(positions, l))
    /\ lastPass' = "legacyPbd2"
    /\ UNCHANGED <<cfgVars, simVars, predictedPositions, velocities, inverseMasses,
                   dataVars, uniformVars, queue, appVars, encodedPasses, driveTime,
                   predictOut, restPositions, restVelocities, driven, projBefore, setupVars, tickHist>>

ProjNext ==
    \/ Project
    \/ LegacyProject

ProjSpec == ProjInit /\ [][ProjNext]_vars

\* the distance of the two endpoints after the projection that has run
ProjectedDistance ==
    LET buf == IF lastPass = "pbd2" THEN predictedPositions ELSE positions
    IN  length(VSub(Vec3At(buf, 1), Vec3At(buf, 0)))

ControlNext ==
    \/ ToggleGravity
    \/ SolverNext

ControlSpec == SolverInit /\ [][ControlNext]_vars

\* the oldest queue entry is a pass of the latest simulate(), and
\* updateSimulationParams has been called before that simulate()
PassAfterUpdate(pipeline) ==
    /\ HeadIs("pass", pipeline)
    /\ Head(queue).tick = tickInfo.ticks
    /\ tickInfo.toggles > 0

\* C11: a tick encoded after updateSimulationParams() runs its Predict stage
\* with the gravity flag the configuration had when the tick was encoded,
\* its Integrate stage finds the parameter buffer as Predict read it, and
\* the damping Integrate applies is the damping that update wrote.
C11_NextTickUsesNewParameters ==
    /\ PassAfterUpdate("pbd1") =>
          (AsF32(simParams[2]) * 2 > One) = tickInfo.gravityEnabled
    /\ PassAfterUpdate("pbd3") =>
          /\ simParams = predictParams
          /\ Pbd3Damping(simParams) = AsF32(simParams[3])

\* a tick encoded after a toggle has reached its Integrate stage
C11_Witness == PassAfterUpdate("pbd3")


\* C12: no step of a tick (a frame, a buffer write, a pass) changes the
\* constraint index pairs, the rest lengths, the inverse masses or the
\* triangle indices the solver was set up with, and the four corners have
\* inverse mass 0 at every moment.
C12_TicksKeepTopology ==
    /\ [][UNCHANGED <<constraintIndices, constraintRestLengths, inverseMasses,
                      indices>>]_vars
    /\ [](\A k \in Corners : inverseMasses[k] = 0)

\* a whole tick has run and rendered, and its Integrate changed positions
C12_Witness ==
    /\ tickInfo.ticks > 0
    /\ lastPass = "render"
    /\ preIntegrate # <<>>
    /\ positions # preIntegrate.positions


(***************************************************************************)
(* Setup on the host, one loop iteration at a time: the constructor, the   *)
(* index buffer of createBuffers, generateTriangleIndices and              *)
(* generateConstraints, for small grids (degenerate ones included) and for *)
(* the grid of utils/config.js.  The positions generateConstraints reads   *)
(* back are taken as zero, which is what the position buffer holds before  *)
(* the init pass; the pairs and the counts do not depend on them.          *)
(***************************************************************************)
DefaultResolutionX == 32
DefaultResolutionY == 32

ConfigGrids ==
    ((1..MaxRes) \X (1..MaxRes)) \union {<<DefaultResolutionX, DefaultResolutionY>>}

ConfigInit ==
    /\ \E grid \in ConfigGrids :
          /\ resolutionX = grid[1]
          /\ resolutionY = grid[2]
    /\ gravityEnabled = TRUE
    /\ constraintIterations = 0
    /\ outOfBounds = "skip"
    /\ derivedConfig = <<>>
    /\ time = 0
    /\ constraintCount = 0
    /\ initialized = FALSE
    /\ genPc = "idle"
    /\ pbd2BindGroup = FALSE
    /\ sineBindGroup = FALSE
    /\ positions = <<>>
    /\ predictedPositions = <<>>
    /\ velocities = <<>>
    /\ inverseMasses = <<>>
    /\ indices = <<>>
    /\ constraintIndices = <<>>
    /\ constraintRestLengths = <<>>
    /\ staging = <<>>
    /\ initParams = <<>>
    /\ simParams = <<>>
    /\ constraintParams = <<>>
    /\ sineParams = <<>>
    /\ queue = <<>>
    /\ appPc = "constructed"
    /\ isRunning = FALSE
    /\ testMode = FALSE
    /\ pendingFrames = 0
    /\ toggles = 0
    /\ encodedPasses = <<>>
    /\ lastPass = "none"
    /\ driveTime = 0
    /\ predictOut = <<>>
    /\ restPositions = <<>>
    /\ restVelocities = <<>>
    /\ driven = FALSE
    /\ projBefore = <<>>
    /\ tickInfo = [ticks |-> 0, gravityEnabled |-> gravityEnabled, toggles |-> 0]
    /\ predictParams = <<>>
    /\ preIntegrate = <<>>
    /\ setupPc = "config"
    /\ row = 0
    /\ list = <<>>

\* new ClothSimulation(device)
Construct ==
    /\ setupPc = "config"
    /\ derivedConfig' = getDeriveConfig(resolutionX, resolutionY)
    /\ time' = 0
    /\ constraintCount' = 0
    /\ initialized' = FALSE
    /\ setupPc' = "constructed"
    /\ UNCHANGED <<cfgVars, queue, genPc, pbd2BindGroup, sineBindGroup, vertexVars,
                   dataVars, uniformVars, appVars, encodedPasses, lastPass,
                   driveTime, predictOut, restPositions, restVelocities, driven,
                   projBefore, tickHist, row, list>>

\* initialize() up to generateTriangleIndices(): createBuffers makes the
\* index buffer for triangleCount * 3 indices
CreateIndexBuffer ==
    /\ setupPc = "constructed"
    /\ indices' = [i \in 0..(derivedConfig.triangleCount * 3 - 1) |-> 0]
    /\ setupPc' = "triangles"
    /\ row' = 0
    /\ list' = <<>>
    /\ UNCHANGED <<cfgVars, queue, simVars, vertexVars, constraintIndices,
                   constraintRestLengths, staging, uniformVars, appVars,
                   encodedPasses, lastPass, driveTime, predictOut,
                   restPositions, restVelocities, driven, projBefore, tickHist>>

\* generateTriangleIndices: one iteration of the loop over z
PushTriangleRow ==
    /\ setupPc = "triangles"
    /\ row < resolutionY - 1
    /\ list' = list \o TriangleRow(resolutionX, row)
    /\ row' = row + 1
    /\ UNCHANGED <<cfgVars, queue, simVars, vertexVars, dataVars, uniformVars, appVars,
                   encodedPasses, lastPass, driveTime, predictOut,
                   restPositions, restVelocities, driven, projBefore, tickHist,
                   setupPc>>

\* generateTriangleIndices after the loop: new Uint16Array(indices) and
\* writeBuffer
WriteIndices ==
    /\ setupPc = "triangles"
    /\ row >= resolutionY - 1
    /\ queue' = Append(queue, WriteOp("indices", Uint16Array(list)))
    /\ setupPc' = "indexed"
    /\ UNCHANGED <<cfgVars, simVars, vertexVars, dataVars, uniformVars,
                   appPc, isRunning, testMode, pendingFrames, toggles,
                   encodedPasses, lastPass, driveTime, predictOut,
                   restPositions, restVelocities, driven, projBefore, tickHist,
                   row, list>>

\* generateConstraints() up to its loops, and initialize() returning while
\* it waits for the readback
StartConstraints ==
    /\ setupPc = "indexed"
    /\ staging' = createFloatBuffer(derivedConfig.vertexCount * 3)
    /\ initialized' = TRUE
    /\ genPc' = "reading"
    /\ setupPc' = "constraints"
    /\ row' = 0
    /\ list' = <<>>
    /\ UNCHANGED <<cfgVars, queue, derivedConfig, time, constraintCount, pbd2BindGroup,
                   sineBindGroup, vertexVars, indices, constraintIndices,
                   constraintRestLengths, uniformVars, appVars, encodedPasses,
                   lastPass, driveTime, predictOut, restPositions,
                   restVelocities, driven, projBefore, tickHist>>

\* generateConstraints: one iteration of the loop over z
PushConstraintRow ==
    /\ setupPc = "constraints"
    /\ row < resolutionY
    /\ list' = list \o ConstraintsBetween(resolutionX, resolutionY, staging,
                                          row * resolutionX, (row + 1) * resolutionX)
    /\ row' = row + 1
    /\ UNCHANGED <<cfgVars, queue, simVars, vertexVars, dataVars, uniformVars, appVars,
                   encodedPasses, lastPass, driveTime, predictOut,
                   restPositions, restVelocities, driven, projBefore, tickHist,
                   setupPc>>

\* generateConstraints after the loops
FinishConstraints ==
    /\ setupPc = "constraints"
    /\ row >= resolutionY
    /\ constraintIndices' = createBuffer(byteLength(constraintIndexData(list)),
                                          constraintIndexData(list))
    /\ constraintRestLengths' = createBuffer(byteLength(constraintRestLengthData(list)),
                                              constraintRestLengthData(list))
    /\ constraintCount' = Max(0, Len(list))
    /\ pbd2BindGroup' = TRUE
    /\ sineBindGroup' = TRUE
    /\ genPc' = "done"
    /\ setupPc' = "done"
    /\ UNCHANGED <<cfgVars, queue, derivedConfig, time, initialized, vertexVars,
                   indices, staging, uniformVars, appVars, encodedPasses,
                   lastPass, driveTime, predictOut, restPositions,
                   restVelocities, driven, projBefore, tickHist, row, list>>

ConfigNext ==
    \/ Construct
    \/ CreateIndexBuffer
    \/ PushTriangleRow
    \/ WriteIndices
    \/ GpuWriteBuffer
    \/ StartConstraints
    \/ PushConstraintRow
    \/ FinishConstraints

ConfigSpec == ConfigInit /\ [][ConfigNext]_vars

\* C13: a configuration with resolutionX < 2 or resolutionY < 2 is rejected
\* before anything is built: the constructor does not complete, no buffer
\* exists and the simulation never becomes initialized.
C13_DegenerateGridRejected ==
    (resolutionX < 2 \/ resolutionY < 2) =>
        /\ setupPc = "config"
        /\ constraintIndices = <<>>
        /\ ~initialized

\* setup of a grid with a single column has run to its end
C13_Witness ==
    /\ resolutionX < 2
    /\ setupPc = "done"
    /\ initialized


\* C14: when the init pass of setup has run, every vertex idx = row *
\* resolutionX + col is at (-width/2 + col * spacingX, 0, -height/2 + row *
\* spacingY), as the host and the renderer read the position buffer, and
\* has velocity zero.
C14_SetupPlacesGrid ==
    lastPass = "init" =>
        \A idx \in 0..(derivedConfig.vertexCount - 1) :
            /\ getPos(positions, idx) = gridPosition(resolutionX, resolutionY, idx)
            /\ getPos(velocities, idx) = Zero3

\* the init pass has run
C14_Witness == lastPass = "init" /\ initialized


C16_TimeCountsTicks ==
    /\ time = tickInfo.ticks * dt
    /\ HeadIs("pass", "sine") => AsF32(sineParams[0]) = Head(queue).tick * dt
    /\ resolutionX = resolutionY =>
          \A currentTime \in ClockStamps :
              updateUniforms(LegacyConstructor(resolutionX), resolutionX,
                             gravityEnabled, LegacyFrameTime(currentTime)).elems[8]
                = (tickInfo.ticks + 1) * dt

\* the Drive pass of a tick is about to run
C16_Witness == HeadIs("pass", "sine") /\ Head(queue).tick > 0


\* C17: the render pass of a frame is queued behind every solver pass of
\* that frame's tick and of earlier ticks and ahead of every pass of later
\* ticks, the pass that ran last when a render pass runs is a Drive pass,
\* and the render pass changes neither positions nor velocities.
C17_RenderAfterTick ==
    /\ [](\A i, j \in DOMAIN queue :
            (/\ queue[i].op = "pass" /\ queue[i].buf = "render"
             /\ queue[j].op = "pass" /\ queue[j].buf # "render")
            => ((j < i) <=> (queue[j].tick <= queue[i].tick)))
    /\ [](HeadIs("pass", "render") => lastPass = "sine")
    /\ [][(HeadIs("pass", "render") /\ queue' = Tail(queue))
            => UNCHANGED <<positions, velocities>>]_vars

\* the render pass of the first frame is about to run and the passes of the
\* second tick are queued behind it
C17_Witness ==
    /\ HeadIs("pass", "render")
    /\ Head(queue).tick = 1
    /\ \E j \in DOMAIN queue : queue[j].buf = "pbd1" /\ queue[j].tick = 2


\* setup of the grid of utils/config.js has run to its end
DefaultSetupDone ==
    /\ resolutionX = DefaultResolutionX
    /\ resolutionY = DefaultResolutionY
    /\ setupPc = "done"

C19_IntegrateCommitsPrediction ==
    lastPass = "pbd3" =>
        /\ predictedPositions = preIntegrate.predictedPositions
        /\ \A i \in 0..(arrayLength(positions) - 1) :
              inverseMasses[i] # 0 =>
                  /\ Vec3At(positions, i) = Vec3At(preIntegrate.predictedPositions, i)
                  /\ Vec3At(velocities, i)
                       = VScale(VDivS(VSub(Vec3At(preIntegrate.predictedPositions, i),
                                           Vec3At(preIntegrate.positions, i)), dt),
                                damping)

\* an Integrate pass has run over a free element that Predict had moved
C19_Witness ==
    /\ lastPass = "pbd3"
    /\ \E i \in 0..(arrayLength(positions) - 1) :
          /\ inverseMasses[i] # 0
          /\ Vec3At(preIntegrate.predictedPositions, i) # Vec3At(preIntegrate.positions, i)

\* C20: the damping the Integrate pass of a tick reads from its parameters
\* is the configured damping and the step it reads is the configured dt.
C20_IntegrateReadsDampingAndDt ==
    HeadIs("pass", "pbd3") =>
        /\ Pbd3Damping(simParams) = damping
        /\ Pbd3Dt(simParams) = dt

\* the Integrate pass of a tick is about to run
C20_Witness == HeadIs("pass", "pbd3") /\ Head(queue).tick > 0


(***************************************************************************)
(* One Constrain pass over two constraints that share a vertex, as the     *)
(* edges (idx, idx+1) and (idx+1, idx+2) of one grid row do.  The three    *)
(* vertices are elements 0, 1 and 2 of the array the shader sees, on one   *)
(* line; the middle one is free.  The pass is the one the GPU executes     *)
(* for a dispatch of simulate(): its threads are not ordered.              *)
(***************************************************************************)
ChainInit ==
    /\ resolutionX = 3
    /\ resolutionY = 2
    /\ gravityEnabled = FALSE
    /\ constraintIterations = 1
    /\ outOfBounds \in {"skip", "clamp"}
    /\ derivedConfig = getDeriveConfig(resolutionX, resolutionY)
    /\ time = 0
    /\ initialized = TRUE
    /\ genPc = "done"
    /\ pbd2BindGroup = TRUE
    /\ sineBindGroup = TRUE
    /\ \E o \in ProjOrigins, d1 \in ProjLengths, d2 \in ProjLengths,
          L \in ProjLengths, mA \in {0, One}, mC \in {0, One} :
         /\ predictedPositions =
               [k \in 0..11 |-> IF k < 3 THEN o[k + 1]
                                ELSE IF k = 4 THEN o[1] + d1
                                ELSE IF k = 8 THEN o[1] + d1 + d2
                                ELSE IF k \in {5, 6} THEN o[k - 3]
                                ELSE IF k \in {9, 10} THEN o[k - 7]
                                ELSE 0]
         /\ inverseMasses = [i \in 0..2 |-> IF i = 0 THEN mA ELSE IF i = 1 THEN One ELSE mC]
         /\ constraintRestLengths =
               writeBuffer(createBuffer(8, null), Float32Array(<<L, L>>))
    /\ positions = predictedPositions
    /\ predictOut = predictedPositions
    /\ constraintCount = 2
    /\ constraintIndices = writeBuffer(createBuffer(16, null), Uint32Array(<<0, 1, 1, 2>>))
    /\ constraintParams = writeBuffer(createBuffer(16, null), Uint32Array(<<0, 2, 0, 0>>))
    /\ velocities = createFloatBuffer(12)
    /\ indices = <<>>
    /\ staging = <<>>
    /\ initParams = createBuffer(32, null)
    /\ simParams = writeBuffer(createBuffer(16, null), simParamsData(gravityEnabled))
    /\ sineParams = writeBuffer(createBuffer(16, null),
                                sineParamsData(0, derivedConfig.centerIndex))
    /\ queue = Dispatch("pbd2", constraintCount)
    /\ appPc = "chain"
    /\ isRunning = FALSE
    /\ testMode = FALSE
    /\ pendingFrames = 0
    /\ toggles = 0
    /\ encodedPasses = <<>>
    /\ lastPass = "none"
    /\ driveTime = 0
    /\ restPositions = <<>>
    /\ restVelocities = <<>>
    /\ driven = FALSE
    /\ projBefore = <<>>
    /\ tickInfo = [ticks |-> 0, gravityEnabled |-> gravityEnabled, toggles |-> 0]
    /\ predictParams = <<>>
    /\ preIntegrate = <<>>
    /\ setupPc = "none"
    /\ row = 0
    /\ list = <<>>

ChainSpec == ChainInit /\ [][GpuConstrain]_vars

\* stage 2 with its threads run to completion one after the other, thread
\* index first: each loads what the threads before it have stored
RECURSIVE Pbd2Sequential(_, _, _, _, _, _)
Pbd2Sequential(pred, cIdx, cRest, inv, index, count) ==
    IF index >= count THEN {pred}
    ELSE UNION {UNION {Pbd2Sequential(p, cIdx, cRest, inv, index + 1, count) :
                         p \in (IF Pbd2Returns(l) THEN {pred}
                                                  ELSE Pbd2Stores(pred, l))} :
                  l \in Pbd2Loads(pred, cIdx, cRest, inv, index)}

\* C21: the predicted positions one Constrain pass leaves are those obtained
\* by applying its constraints one at a time in generator order to the
\* predicted positions the pass started from, each constraint reading what
\* the ones before it wrote.
C21_PassEqualsSequentialSweep ==
    lastPass = "pbd2" =>
        predictedPositions \in Pbd2Sequential(predictOut, constraintIndices,
                                              constraintRestLengths, inverseMasses,
                                              0, AsU32(constraintParams[1]))

\* a pass has run over two violated constraints that share a free vertex and
\* has moved that vertex
C21_Witness ==
    /\ lastPass = "pbd2"
    /\ AsU32(constraintParams[1]) = 2
    /\ inverseMasses[1] # 0
    /\ Vec3At(predictedPositions, 1) # Vec3At(predictOut, 1)


\* C22: a Predict pass leaves the position buffer as it was; as the host
\* reads the buffers (three floats per vertex), a pinned vertex gets
\* predicted = position and keeps its velocity, and a free vertex gets
\* velocity.y lowered by gravity * dt if and only if the gravity flag of the
\* parameters is set and then predicted = position + velocity * dt with that
\* velocity; the stage 1 that predicts in place leaves positions as they
\* were as well.
C22_PredictEffect ==
    [][(HeadIs("pass", "pbd1") /\ queue' = Tail(queue)) =>
        /\ positions' = positions
        /\ \A k \in 0..(derivedConfig.vertexCount - 1) :
              LET old == getPos(velocities, k)
                  velocity == IF inverseMasses[k] # 0 /\ AsF32(simParams[2]) * 2 > One
                              THEN <<old[1], old[2] - FxMul(gravity, dt), old[3]>>
                              ELSE old
              IN  /\ getPos(velocities', k) = velocity
                  /\ getPos(predictedPositions', k)
                       = IF inverseMasses[k] = 0 THEN getPos(positions, k)
                         ELSE VAdd(getPos(positions, k), VScale(velocity, dt))
        /\ resolutionX = resolutionY =>
              \A i \in 0..(arrayLength(positions) - 1) :
                 \A m \in LegacyPbd1Main(
                              updateUniforms(LegacyConstructor(resolutionX), resolutionX,
                                             gravityEnabled, time).elems,
                              positions,
                              [k \in 0..(4 * derivedConfig.vertexCount - 1) |-> 0],
                              inverseMasses, i) :
                     m.positions = positions
      ]_vars

\* a Predict pass has run with the gravity flag set on a grid that has free
\* vertices, and has changed a velocity
C22_Witness ==
    /\ lastPass = "pbd1"
    /\ AsF32(predictParams[2]) * 2 > One
    /\ \E k \in DOMAIN inverseMasses : inverseMasses[k] # 0
    /\ \E k \in DOMAIN velocities : velocities[k] # 0


\* the endpoints of the projected constraint before and after the projection
\* that has run: the buffer the other variant works on still holds the
\* positions both started from
ProjAfter(i) == Vec3At(IF lastPass = "pbd2" THEN predictedPositions ELSE positions, i)
ProjStart(i) == Vec3At(IF lastPass = "pbd2" THEN positions ELSE predictedPositions, i)

\* C23: one projection of a constraint with exactly one pinned endpoint, its
\* endpoints at least epsilon apart, leaves the pinned endpoint where it was
\* and moves the free endpoint along the edge to distance restLength from
\* it; a projection of a constraint with two pinned endpoints changes
\* nothing; for the weighted stage 2 and for the half-correction stage 2.
C23_PinnedEndpointStays ==
    LET free == IF projBefore.invMassA = 0 THEN 1 ELSE 0
        edge == VSub(ProjStart(1), ProjStart(0))
        move == VSub(ProjAfter(free), ProjStart(free))
    IN  lastPass \in {"pbd2", "legacyPbd2"} =>
          /\ (projBefore.invMassA = 0 /\ projBefore.invMassB = 0) =>
                /\ ProjAfter(0) = ProjStart(0)
                /\ ProjAfter(1) = ProjStart(1)
          /\ (/\ (projBefore.invMassA = 0) # (projBefore.invMassB = 0)
              /\ ~LtEpsilon(projBefore.dist)) =>
                /\ ProjAfter(1 - free) = ProjStart(1 - free)
                /\ ProjectedDistance = projBefore.restLength
                /\ move[1] * edge[2] = move[2] * edge[1]
                /\ move[2] * edge[3] = move[3] * edge[2]
                /\ move[1] * edge[3] = move[3] * edge[1]

\* a stretched constraint whose first endpoint is pinned has been projected
\* by the weighted stage 2 and its free endpoint has moved
C23_Witness ==
    /\ lastPass = "pbd2"
    /\ projBefore.invMassA = 0
    /\ projBefore.invMassB = One
    /\ projBefore.dist > projBefore.restLength
    /\ ProjAfter(1) # ProjStart(1)


\* compute-sine.wgsl of src/shaders: `let centerVertexIndex = 512;`
centerVertexIndex == 512

\* C24: the driven index is floor(resolutionX/2) + floor(resolutionY/2) *
\* resolutionX as derived at construction, lies in [0, vertexCount), is not
\* one of the four pinned corners, is the index the Drive pass of every
\* tick reads from its parameters, and the index the sine shader of
\* src/shaders uses lies in [0, vertexCount) of the grid it runs on.
C24_DrivenIndexFixedAndFree ==
    /\ derivedConfig.centerIndex
          = (resolutionX \div 2) + (resolutionY \div 2) * resolutionX
    /\ derivedConfig.centerIndex \in 0..(derivedConfig.vertexCount - 1)
    /\ derivedConfig.centerIndex \notin Corners
    /\ HeadIs("pass", "sine") => AsU32(sineParams[3]) = derivedConfig.centerIndex
    /\ resolutionX = resolutionY =>
          centerVertexIndex \in 0..(LegacyConstructor(resolutionX).vertexCount - 1)

\* the Drive pass of the second tick is about to run
C24_Witness == HeadIs("pass", "sine") /\ Head(queue).tick = 2


(***************************************************************************)
(* One projection of one constraint whose endpoints are very close.  As    *)
(* in ProjSpec, with lengths in units of 1/(100 * One), so that distances  *)
(* between zero and the guard's 0.0001 exist: 0, 0.00005, 0.00009, 0.0001  *)
(* and 0.0002, with rest lengths 0.0002 and 0.016.                         *)
(***************************************************************************)
FineInit ==
    /\ resolutionX = 2
    /\ resolutionY = 2
    /\ gravityEnabled = FALSE
    /\ constraintIterations = 1
    /\ outOfBounds \in {"skip", "clamp"}
    /\ derivedConfig = getDeriveConfig(resolutionX, resolutionY)
    /\ time = 0
    /\ initialized = TRUE
    /\ genPc = "done"
    /\ pbd2BindGroup = TRUE
    /\ sineBindGroup = TRUE
    /\ \E o \in ProjOrigins, axis \in 1..3, d \in {0, 5, 9, 10, 20},
          L \in {20, 1600}, mA \in {0, One}, mB \in {0, One} :
         LET posA == o
             posB == [o EXCEPT ![axis] = @ + d]
         IN  /\ positions = ProjBuffer(posA, posB)
             /\ predictedPositions = ProjBuffer(posA, posB)
             /\ inverseMasses = [i \in 0..3 |-> IF i = 0 THEN mA ELSE IF i = 1 THEN mB ELSE 0]
             /\ constraintRestLengths =
                   writeBuffer(createBuffer(4, null), Float32Array(<<L>>))
             /\ projBefore = [dist |-> d, restLength |-> L,
                              invMassA |-> mA, invMassB |-> mB]
    /\ constraintCount = 1
    /\ constraintIndices = writeBuffer(createBuffer(8, null), Uint32Array(<<0, 1>>))
    /\ constraintParams = writeBuffer(createBuffer(16, null), Uint32Array(<<0, 1, 0, 0>>))
    /\ velocities = createFloatBuffer(12)
    /\ indices = <<>>
    /\ staging = <<>>
    /\ initParams = createBuffer(32, null)
    /\ simParams = writeBuffer(createBuffer(16, null), simParamsData(gravityEnabled))
    /\ sineParams = writeBuffer(createBuffer(16, null),
                                sineParamsData(0, derivedConfig.centerIndex))
    /\ queue = <<>>
    /\ appPc = "fineProjection"
    /\ isRunning = FALSE
    /\ testMode = FALSE
    /\ pendingFrames = 0
    /\ toggles = 0
    /\ encodedPasses = <<>>
    /\ lastPass = "none"
    /\ driveTime = 0
    /\ predictOut = <<>>
    /\ restPositions = <<>>
    /\ restVelocities = <<>>
    /\ driven = FALSE
    /\ tickInfo = [ticks |-> 0, gravityEnabled |-> gravityEnabled, toggles |-> 0]
    /\ predictParams = <<>>
    /\ preIntegrate = <<>>
    /\ setupPc = "none"
    /\ row = 0
    /\ list = <<>>

FineSpec == FineInit /\ [][ProjNext]_vars

\* C25: a projection of a constraint whose endpoints are closer than
\* epsilon = 0.0001, coincident ones included, changes neither endpoint; for
\* the weighted stage 2 and for the half-correction stage 2.
C25_NearZeroDistanceSkipped ==
    (/\ lastPass \in {"pbd2", "legacyPbd2"}
     /\ projBefore.dist * epsilonInv < LengthUnit)
    => /\ ProjAfter(0) = ProjStart(0)
       /\ ProjAfter(1) = ProjStart(1)

\* the weighted stage 2 has run on two free endpoints that are 0.00005
\* apart, and the constraint is not at its rest length
C25_Witness ==
    /\ lastPass = "pbd2"
    /\ projBefore.dist = 5
    /\ projBefore.dist * epsilonInv < LengthUnit
    /\ projBefore.invMassA = One
    /\ projBefore.invMassB = One
    /\ projBefore.restLength = 1600


\* C26: a Drive pass changes nothing but position.y and the velocity of the
\* driven vertex centerIndex, as the host reads the buffers: x and z of that
\* vertex and the position and velocity of every other vertex are after the
\* pass what they were before it.
C26_DriveTouchesOnlyDrivenVertex ==
    [][(HeadIs("pass", "sine") /\ queue' = Tail(queue)) =>
        \A k \in 0..(derivedConfig.vertexCount - 1) :
            IF k = derivedConfig.centerIndex
            THEN /\ getPos(positions', k)[1] = getPos(positions, k)[1]
                 /\ getPos(positions', k)[3] = getPos(positions, k)[3]
            ELSE /\ getPos(positions', k) = getPos(positions, k)
                 /\ getPos(velocities', k) = getPos(velocities, k)
      ]_vars

\* a Drive pass has run and has changed the position buffer
C26_Witness == lastPass = "sine" /\ driven


\* the index pairs of a list of constraints
Pairs(cs) == [k \in DOMAIN cs |-> <<cs[k][1], cs[k][2]>>]

legacyWorkgroupSize == 64

\* C28: the threads of a Predict or Integrate dispatch that get past the
\* shader's bounds guard are exactly the vertex indices 0..vertexCount-1;
\* those of a Constrain dispatch are exactly the constraint indices
\* 0..constraintCount-1 and every vertex index such a thread loads is inside
\* the position array the shader sees; and the dispatches of the class
\* constructed from a resolution, whose shaders have no guard, start no
\* thread beyond the last vertex or the last constraint.
C28_ThreadsCoverAndStayInRange ==
    /\ (HeadIs("pass", "pbd1") \/ HeadIs("pass", "pbd3")) =>
          /\ Threads >= derivedConfig.vertexCount
          /\ Min(Threads, arrayLength(positions)) = derivedConfig.vertexCount
    /\ HeadIs("pass", "pbd2") =>
          /\ Min(Threads, AsU32(constraintParams[1])) = constraintCount
          /\ \A c \in 0..(constraintCount - 1) :
                /\ AsU32(constraintIndices[2 * c]) < arrayLength(predictedPositions)
                /\ AsU32(constraintIndices[2 * c + 1]) < arrayLength(predictedPositions)
    /\ resolutionX = resolutionY =>
          LET self == LegacyConstructor(resolutionX)
          IN  /\ CeilDiv(self.vertexCount, legacyWorkgroupSize) * legacyWorkgroupSize
                    <= self.vertexCount
              /\ CeilDiv(self.constraintCount, legacyWorkgroupSize) * legacyWorkgroupSize
                    <= self.constraintCount

\* a Constrain dispatch is about to run on a grid with more vertices than
\* the position array has vec3 elements
C28_Witness ==
    /\ HeadIs("pass", "pbd2")
    /\ constraintCount > 0
    /\ derivedConfig.vertexCount > arrayLength(positions)


(***************************************************************************)
(* The life cycle of ClothSimulationApp: start(), stop(), setTestMode()    *)
(* called in any order on an application that initialize() has started,    *)
(* the animation-frame callbacks, and the GPU.  The grid is 2 x 2 without  *)
(* constraint iterations.  Callbacks run in the order they were requested, *)
(* so while isRunning holds this.animationFrameId names the newest pending *)
(* callback, and once stop() has run it names none that is pending.        *)
(***************************************************************************)
AppInit ==
    /\ SolverInit
    /\ resolutionX = 2
    /\ resolutionY = 2
    /\ constraintIterations = 0
    /\ constraintCount = 0
    /\ positions = staging

\* animate() past `if (!this.isRunning) return`, with base callbacks pending
AnimateBody(base) ==
    /\ Len(queue) <= MaxPending
    /\ IF testMode
       THEN /\ queue' = Append(queue, PassOp("testTriangle", 0))
            /\ UNCHANGED <<time, encodedPasses, tickInfo>>
       ELSE /\ time < MaxTicks * dt
            /\ time' = time + dt
            /\ encodedPasses' = Pipelines(FramePasses)
            /\ queue' = queue \o InTick(FrameWrites \o EncodeFrame(FramePasses),
                                        tickInfo.ticks + 1)
            /\ tickInfo' = ThisTick
    /\ pendingFrames' = base + 1

\* start()
Start ==
    /\ appPc = "started"
    /\ pendingFrames <= MaxPending
    /\ isRunning' = TRUE
    /\ AnimateBody(pendingFrames)
    /\ UNCHANGED <<cfgVars, derivedConfig, constraintCount, initialized, genPc,
                   pbd2BindGroup, sineBindGroup, vertexVars, dataVars,
                   uniformVars, appPc, testMode, toggles,
                   lastPass, driveTime, predictOut, restPositions,
                   restVelocities, driven, projBefore, setupVars, predictParams,
                   preIntegrate>>

\* stop(): cancelAnimationFrame(this.animationFrameId)
Stop ==
    /\ appPc = "started"
    /\ isRunning' = FALSE
    /\ pendingFrames' = IF isRunning /\ pendingFrames > 0 THEN pendingFrames - 1
                                                          ELSE pendingFrames
    /\ UNCHANGED <<cfgVars, simVars, vertexVars, dataVars, uniformVars, queue,
                   appPc, testMode, toggles, histVars>>

\* setTestMode(enabled), called by the listener of the test mode toggle
setTestMode ==
    /\ appPc = "started"
    /\ \E enabled \in BOOLEAN : testMode' = enabled
    /\ UNCHANGED <<cfgVars, simVars, vertexVars, dataVars, uniformVars, queue,
                   appPc, isRunning, pendingFrames, toggles, histVars>>

\* an animation-frame callback runs: animate()
AnimationFrame ==
    /\ appPc = "started"
    /\ pendingFrames > 0
    /\ IF isRunning
       THEN AnimateBody(pendingFrames - 1)
       ELSE /\ pendingFrames' = pendingFrames - 1
            /\ UNCHANGED <<queue, time, encodedPasses, tickInfo>>
    /\ UNCHANGED <<cfgVars, derivedConfig, constraintCount, initialized, genPc,
                   pbd2BindGroup, sineBindGroup, vertexVars, dataVars,
                   uniformVars, appPc, isRunning, testMode, toggles,
                   lastPass, driveTime, predictOut, restPositions,
                   restVelocities, driven, projBefore, setupVars, predictParams,
                   preIntegrate>>

AppNext ==
    \/ Start
    \/ Stop
    \/ setTestMode
    \/ AnimationFrame
    \/ GpuWriteBuffer
    \/ GpuPredict
    \/ GpuIntegrate
    \/ GpuDrive
    \/ GpuRender

AppSpec == AppInit /\ [][AppNext]_vars

\* C29: whatever start(), stop() and setTestMode() calls are made, at most
\* one animation-frame callback is pending at any time; a step that submits
\* a frame performs exactly one simulate() when test mode is off (time
\* advances by dt) and none when test mode is on (time and the queued solver
\* work stay as they are but for the test render pass); and simulate() runs
\* in no other step, so never while the application is stopped.
C29_OneTickPerFrame ==
    /\ [](pendingFrames <= 1)
    /\ [][Len(queue') > Len(queue) =>
            IF testMode
            THEN /\ UNCHANGED <<time, tickInfo>>
                 /\ queue' = Append(queue, PassOp("testTriangle", 0))
            ELSE /\ tickInfo.ticks' = tickInfo.ticks + 1
                 /\ time' = time + dt]_vars
    /\ [][(tickInfo' # tickInfo \/ time' # time) =>
            (isRunning' /\ ~testMode /\ Len(queue') > Len(queue))]_vars

\* after a stop and a new start a frame has run in test mode, and a tick had
\* run before
C29_Witness ==
    /\ isRunning
    /\ testMode
    /\ lastPass = "testTriangle"
    /\ tickInfo.ticks > 0
    /\ pendingFrames = 1


(***************************************************************************)
(* generateTriangleIndices entered at one of its last MaxRes rows, with    *)
(* the part of the index buffer that belongs to the rows from there on:    *)
(* for small grids and for grids around 256 x 256, which has 2^16          *)
(* vertices.  The constructor and createBuffers accept every such grid.    *)
(***************************************************************************)
IndexInit ==
    /\ \E grid \in ((2..MaxRes) \X (2..MaxRes))
                      \union ({255, 256, 257} \X {255, 256, 257}) :
          /\ resolutionX = grid[1]
          /\ resolutionY = grid[2]
    /\ \E z \in 0..(resolutionY - 2) :
          /\ z >= resolutionY - 1 - MaxRes
          /\ row = z
    /\ indices = [i \in 0..(6 * (resolutionX - 1) * (resolutionY - 1 - row) - 1) |-> 0]
    /\ derivedConfig = getDeriveConfig(resolutionX, resolutionY)
    /\ setupPc = "triangles"
    /\ list = <<>>
    /\ gravityEnabled = TRUE
    /\ constraintIterations = 0
    /\ outOfBounds = "skip"
    /\ time = 0
    /\ constraintCount = 0
    /\ initialized = FALSE
    /\ genPc = "idle"
    /\ pbd2BindGroup = FALSE
    /\ sineBindGroup = FALSE
    /\ positions = <<>>
    /\ predictedPositions = <<>>
    /\ velocities = <<>>
    /\ inverseMasses = <<>>
    /\ constraintIndices = <<>>
    /\ constraintRestLengths = <<>>
    /\ staging = <<>>
    /\ initParams = <<>>
    /\ simParams = <<>>
    /\ constraintParams = <<>>
    /\ sineParams = <<>>
    /\ queue = <<>>
    /\ appPc = "indexRows"
    /\ isRunning = FALSE
    /\ testMode = FALSE
    /\ pendingFrames = 0
    /\ toggles = 0
    /\ encodedPasses = <<>>
    /\ lastPass = "none"
    /\ driveTime = 0
    /\ predictOut = <<>>
    /\ restPositions = <<>>
    /\ restVelocities = <<>>
    /\ driven = FALSE
    /\ projBefore = <<>>
    /\ tickInfo = [ticks |-> 0, gravityEnabled |-> gravityEnabled, toggles |-> 0]
    /\ predictParams = <<>>
    /\ preIntegrate = <<>>

IndexNext ==
    \/ PushTriangleRow
    \/ WriteIndices
    \/ GpuWriteBuffer

IndexSpec == IndexInit /\ [][IndexNext]_vars

\* C30: once the index data is in the buffer, the index stored for each
\* corner of each cell is the vertex index line * resolutionX + col of that
\* corner of the grid, on every grid the constructor accepts; the indices
\* the class constructed from a resolution stores in its Uint16Array are the
\* vertex indices of the corners as well.
C30_StoredIndexIsVertexIndex ==
    LET rx == resolutionX
        perRow == 6 * (rx - 1)
        first == resolutionY - 1 - (Cardinality(DOMAIN indices) \div perRow)
        dLine == <<0, 1, 0, 0, 1, 1>>
        dCol == <<0, 0, 1, 1, 0, 1>>
        legacyLine == <<0, 0, 1, 0, 1, 1>>
        legacyCol == <<0, 1, 0, 1, 1, 0>>
    IN  (appPc = "indexRows" /\ setupPc = "indexed" /\ queue = <<>>) =>
            /\ \A k \in DOMAIN indices :
                  indices[k] = (first + (k \div perRow) + dLine[(k % 6) + 1]) * rx
                               + ((k % perRow) \div 6) + dCol[(k % 6) + 1]
            /\ rx = resolutionY =>
                  \A j \in 0..(rx - 2), c \in 1..6 :
                      Uint16Array(LegacyTriangleCell(rx, (rx - 2) * (rx - 1) + j)).elems[c]
                          = (rx - 2 + legacyLine[c]) * rx + j + legacyCol[c]

\* the index data of the last rows of the grid with 2^16 vertices is in the
\* buffer, the index of the last vertex included
C30_Witness ==
    /\ appPc = "indexRows"
    /\ setupPc = "indexed"
    /\ queue = <<>>
    /\ resolutionX = 256
    /\ resolutionY = 256
    /\ Cardinality(DOMAIN indices) > 6 * (resolutionX - 1)
    /\ indices[Cardinality(DOMAIN indices) - 1] = 65535

====
